---- MODULE Spec2Model ----
(***************************************************************************)
(* Model of the stream pipeline of advixum/people: handlers.GetMsg and     *)
(* handlers.ProcessMsg (package handlers), models.FullName.IsValid,        *)
(* models.Entry.Enrich with its three lookup goroutines (package models),  *)
(* kafka.Topic.Consume / kafka.Topic.Produce (package kafka), and the      *)
(* HTTP handlers Create, Read, Update and Delete (package handlers) with    *)
(* the store and the cache they share with the pipeline.                   *)
(***************************************************************************)
EXTENDS Integers, Sequences, FiniteSets, TLC

\* ------------------------------------------------------------------ bounds
\* Runs of ProcessMsg the model has room for, and the number of messages the
\* consumer reads in the specification with the full input sets.
MaxMsgs == 2
MaxSolo == 1

\* HTTP requests the model has room for.
MaxReqs == 2
MaxCalls == 2

\* --------------------------------------------------------- program constants
MinLen == 2
MaxLen == 50
MinAge == 1
MaxAge == 120
MaxUint8 == 255
ErrChCap == 1
NTasks == 3

\* ------------------------------------------------------------------ strings
\* A name is a sequence of characters.  Go's len() counts bytes of the UTF-8
\* encoding: a Cyrillic letter takes two bytes, the other characters one.
Latin == {"I", "v", "a", "n", "o", "i", "c", "h", "N", "S"}
Cyrillic == {"ya"}
Digits == {"1"}
Symbols == {"!"}

ByteWidth(c) == IF c \in Cyrillic THEN 2 ELSE 1

RECURSIVE ByteLen(_)
ByteLen(s) == IF s = <<>> THEN 0 ELSE ByteWidth(Head(s)) + ByteLen(Tail(s))

Rep(c, n) == [i \in 1..n |-> c]

\* regexp `^[a-zA-Zа-яА-Я]+$`
MatchNamePattern(s) == Len(s) >= 1 /\ \A i \in 1..Len(s) : s[i] \in Latin \cup Cyrillic

\* regexp `^[A-Z]{2}$`, on the country codes of the model
MatchCountryPattern(s) == s \in {"RU", "US"}

RECURSIVE Join(_, _)
Join(parts, sep) ==
    IF parts = <<>> THEN ""
    ELSE IF Len(parts) = 1 THEN parts[1]
    ELSE parts[1] \o sep \o Join(Tail(parts), sep)

\* One switch of IsValid: at most one rule message for the field.
NameRule(s, field) ==
    IF s = <<>> THEN <<field \o " cannot be empty">>
    ELSE IF ByteLen(s) < MinLen THEN <<field \o " is too short">>
    ELSE IF ByteLen(s) > MaxLen THEN <<field \o " is too long">>
    ELSE IF ~MatchNamePattern(s) THEN <<field \o " contains invalid characters">>
    ELSE <<>>

EntryNameRuleByLetters(s, field) ==
    IF s = <<>> THEN <<field \o " cannot be empty">>
    ELSE IF Len(s) < MinLen THEN <<field \o " is too short">>
    ELSE IF Len(s) > MaxLen THEN <<field \o " is too long">>
    ELSE IF ~MatchNamePattern(s) THEN <<field \o " contains invalid characters">>
    ELSE <<>>

\* The name and surname switches of Entry.IsValid, written out a second
\* time in the source.
EntryNameRule(s, field) ==
    IF s = <<>> THEN <<field \o " cannot be empty">>
    ELSE IF ByteLen(s) < MinLen THEN <<field \o " is too short">>
    ELSE IF ByteLen(s) > MaxLen THEN <<field \o " is too long">>
    ELSE IF ~MatchNamePattern(s) THEN <<field \o " contains invalid characters">>
    ELSE <<>>

\* models.FullName: Name, Surname, Patronymic, Error
FullName(n, s, p, e) == [Name |-> n, Surname |-> s, Patronymic |-> p, Error |-> e]

ZeroFullName == FullName(<<>>, <<>>, <<>>, "")

\* (e *FullName) IsValid() string
FullNameIsValid(e) ==
    Join(NameRule(e.Name, "name") \o NameRule(e.Surname, "surname"), ", ")

\* (e *Entry) IsValid() error, "" for nil
EntryIsValid(e) ==
    Join(EntryNameRule(e.Name, "name") \o EntryNameRule(e.Surname, "surname")
         \o (IF e.Age < MinAge \/ e.Age > MaxAge
             THEN <<"age contains invalid data">> ELSE <<>>)
         \o (IF e.Gender = "" THEN <<"gender cannot be empty">>
             ELSE IF e.Gender # "male" /\ e.Gender # "female"
             THEN <<"only male or female gender is available">> ELSE <<>>)
         \o (IF e.Nationality = "" THEN <<"nationality cannot be empty">>
             ELSE IF ~MatchCountryPattern(e.Nationality)
             THEN <<"nationality contains invalid data (example: RU, US)">>
             ELSE <<>>),
         ", ")

\* ---------------------------------------------------------------- payloads
\* A message value: either the JSON encoding of a FullName or bytes that
\* json.Unmarshal rejects.
Marshal(fn) == [json |-> TRUE, val |-> fn]

Garbage == [json |-> FALSE, val |-> ZeroFullName]

\* json.Unmarshal(msg, &dataMsg): the error flag and the decoded value
Unmarshal(b) == [err |-> ~b.json, val |-> IF b.json THEN b.val ELSE ZeroFullName]

Ivan == <<"I", "v", "a", "n">>
Ivanov == <<"I", "v", "a", "n", "o", "v">>
Ivanovich == <<"I", "v", "a", "n", "o", "v", "i", "c", "h">>

Names ==
    { <<>>, <<"N">>, Ivan, Rep("a", MaxLen + 1), <<"1">> \o Ivan,
      <<"!">> \o Ivan, <<"ya">>, Rep("ya", MaxLen \div 2) \o <<"1">> }

Surnames == { Ivanov, <<>>, <<"S">>, <<"1">> \o Ivanov }

Patronymics == { <<>>, Ivanovich }

Payloads ==
    {Garbage} \cup
    { Marshal(FullName(n, s, p, "")) : n \in Names, s \in Surnames, p \in Patronymics }

\* ------------------------------------------------------- lookup responses
\* A decoded JSON value of the response map: absent, a number or a string.
Absent == [t |-> "absent", n |-> 0, s |-> ""]
Num(v) == [t |-> "number", n |-> v, s |-> ""]
Str(x) == [t |-> "string", n |-> 0, s |-> x]

\* One element of the "country" array: an object with a country_id, or not
\* an object at all.
CountryObj(id) == [obj |-> TRUE, country_id |-> id]
CountryNonObj == [obj |-> FALSE, country_id |-> Absent]

\* reqData map[string]interface{}: the three keys the goroutines read.
\* country.arr is FALSE when the key is missing or not an array.
ReqData(a, g, isArr, list) ==
    [age |-> a, gender |-> g, country |-> [arr |-> isArr, list |-> list]]

NilMap == ReqData(Absent, Absent, FALSE, <<>>)

\* http.Get's error names the URL it was asked for; the decoder's does not.
NetErr(url) == "Get " \o url \o ": dial tcp: connection refused"
DecodeErr == "invalid character looking for beginning of value"

\* What the service does with one request: the connection fails, the body
\* is not JSON, or the body decodes to a map.
Response(kind, body) == [kind |-> kind, body |-> body]
NoResponse == Response("none", NilMap)
FailedResponses == { Response("neterr", NilMap), Response("badbody", NilMap) }

AgeVals == {0, 25, 121}
GenderVals == {"male", "other"}
CountryVals == {"RU", "ru"}

AgeResponses ==
    FailedResponses \cup
    { Response("json", ReqData(a, Absent, FALSE, <<>>)) :
        a \in {Absent} \cup { Num(v) : v \in AgeVals } }

GenderResponses ==
    FailedResponses \cup
    { Response("json", ReqData(Absent, g, FALSE, <<>>)) :
        g \in {Absent} \cup { Str(v) : v \in GenderVals } }

CountryLists ==
    { <<>>, <<CountryNonObj>>, <<CountryObj(Absent)>> } \cup
    { <<CountryObj(Str(c))>> : c \in CountryVals }

NationalityResponses ==
    FailedResponses \cup
    { Response("json", NilMap) } \cup
    { Response("json", ReqData(Absent, Absent, TRUE, l)) : l \in CountryLists }

\* apiReq(url, &reqData): the error ("" for nil) and the map it filled.
\* On an error the map stays nil.
apiReq(url, resp) ==
    IF resp.kind = "neterr" THEN [err |-> NetErr(url), reqData |-> NilMap]
    ELSE IF resp.kind = "badbody" THEN [err |-> DecodeErr, reqData |-> NilMap]
    ELSE [err |-> "", reqData |-> resp.body]

\* uint8(target) of a float64: exact inside 0..255, implementation-dependent
\* outside.
uint8(t) == IF t \in 0..MaxUint8 THEN {t} ELSE 0..MaxUint8

\* What a lookup goroutine does after its request: the errors it sends on
\* the channel, in order, whether it then panics instead of finishing, and
\* the value it stores through its pointer when it finishes.
Plan(sends, panics, out) == [sends |-> sends, panics |-> panics, out |-> out]
NoPlan == Plan(<<>>, FALSE, Absent)

OnErr(err) == IF err # "" THEN <<err>> ELSE <<>>
Unless(ok, text) == IF ok THEN <<>> ELSE <<text>>

\* age with a range check added in the style of the other checks: a third
\* send, and again no return after any of them.
ageWithRangeCheck(resp) ==
    LET r == apiReq("https://api.agify.io/", resp)
        ok == r.reqData.age.t = "number"
        target == IF ok THEN r.reqData.age.n ELSE 0
    IN  Plan(OnErr(r.err) \o Unless(ok, "age data not found")
               \o Unless(target \in MinAge..MaxAge, "age out of range"),
             FALSE,
             IF ok THEN r.reqData.age ELSE Num(0))

\* func age(name, age, wg, ch)
age(resp) ==
    LET r == apiReq("https://api.agify.io/", resp)
        ok == r.reqData.age.t = "number"
    IN  Plan(OnErr(r.err) \o Unless(ok, "age data not found"),
             FALSE,
             IF ok THEN r.reqData.age ELSE Num(0))

\* func gender(name, gender, wg, ch)
gender(resp) ==
    LET r == apiReq("https://api.genderize.io/", resp)
        ok == r.reqData.gender.t = "string"
    IN  Plan(OnErr(r.err) \o Unless(ok, "gender data not found"),
             FALSE,
             IF ok THEN r.reqData.gender ELSE Str(""))

\* func nationality(name, nation, wg, ch): countryList[0] is evaluated
\* whatever the checks before it found, and panics on an empty list.
nationality(resp) ==
    LET r == apiReq("https://api.nationalize.io/", resp)
        okList == r.reqData.country.arr
        countryList == r.reqData.country.list
        first == Unless(okList /\ Len(countryList) # 0, "country data not found")
    IN  IF Len(countryList) = 0
        THEN Plan(OnErr(r.err) \o first, TRUE, Str(""))
        ELSE LET okObj == countryList[1].obj
                 countryID == countryList[1].country_id
                 okID == okObj /\ countryID.t = "string"
             IN  Plan(OnErr(r.err) \o first
                        \o Unless(okObj, "invalid country data")
                        \o Unless(okID, "country ID not found"),
                      FALSE,
                      IF okID THEN countryID ELSE Str(""))

Svc == {"age", "gender", "nationality"}

Responses ==
    [g \in Svc |->
        CASE g = "age" -> AgeResponses
          [] g = "gender" -> GenderResponses
          [] g = "nationality" -> NationalityResponses]

\* The inputs of the specification with two concurrent runs: two valid
\* messages and one undecodable one; per service one answer that succeeds
\* and, for age and nationality, one that fails.
ConcPayloads ==
    { Garbage,
      Marshal(FullName(Ivan, Ivanov, Ivanovich, "")),
      Marshal(FullName(Ivanov, Ivan, <<>>, "")) }

ConcResponses ==
    [g \in Svc |->
        CASE g = "age" ->
                { Response("neterr", NilMap),
                  Response("json", ReqData(Num(25), Absent, FALSE, <<>>)) }
          [] g = "gender" ->
                { Response("json", ReqData(Absent, Str("male"), FALSE, <<>>)) }
          [] g = "nationality" ->
                { Response("json", ReqData(Absent, Absent, TRUE, <<>>)),
                  Response("json", ReqData(Absent, Absent, TRUE,
                                           <<CountryObj(Str("RU"))>>)) }]

PlanOf(g, resp) ==
    CASE g = "age" -> age(resp)
      [] g = "gender" -> gender(resp)
      [] g = "nationality" -> nationality(resp)

\* ------------------------------------------------------------------- state
Runs == 1..MaxMsgs

VARIABLES
    nRead,      \* messages the consumer has taken from reader.Messages()
    dataCh,     \* the value Consume is blocked sending on dataCh, if any
    nRuns,      \* ProcessMsg goroutines GetMsg has started
    pc,         \* pc[r]: where run r of ProcessMsg stands
    msg,        \* msg[r]: the payload run r was started with
    dataMsg,    \* dataMsg[r]: models.FullName of run r
    entry,      \* entry[r]: models.Entry of run r
    enrichErr,  \* what Enrich returned to run r: "pending", "" (nil) or the error
    lk,         \* lk[r][g]: lookup goroutine g of run r
    errCh,      \* errCh[r]: the buffered error channel of run r's Enrich
    tasks,      \* tasks[r]: counter of the sync.WaitGroup of run r's Enrich
    emitted,    \* emitted[r]: values run r handed to failTopic.Produce
    calls,      \* calls[r]: how often run r called each collaborator
    db,         \* rows of the entries table, in creation order
    lastID,     \* the last value of the table's id sequence
    cRedis,     \* the keys of the cache with their values
    prodInput,  \* failProducer.Input(): messages not yet acknowledged
    prodAcks,   \* failProducer.Successes() / Errors(): acknowledgements not yet taken
    failLog,    \* values the failure topic holds
    crashed,    \* an unrecovered panic has ended the process
    req,        \* req[h]: HTTP request h and the handler serving it
    probe       \* a record handed to the validators and what they returned

vars ==
    << nRead, dataCh, nRuns, pc, msg, dataMsg, entry, enrichErr, lk, errCh,
       tasks, emitted, calls, db, lastID, cRedis, prodInput, prodAcks, failLog,
       crashed, req, probe >>

runVars == << pc, msg, dataMsg, entry, enrichErr, lk, errCh, tasks, emitted, calls >>
driverVars == << nRead, dataCh, nRuns >>
storeVars == << db, lastID, cRedis >>
prodVars == << prodInput, prodAcks, failLog >>
apiVars == << req >>
valVars == << probe >>

\* models.Entry: the zero value, and the one ProcessMsg builds from dataMsg
Entry(id, n, s, p, a, g, c) ==
    [ID |-> id, Name |-> n, Surname |-> s, Patronymic |-> p,
     Age |-> a, Gender |-> g, Nationality |-> c]

ZeroEntry == Entry(0, <<>>, <<>>, <<>>, 0, "", "")

Lookup(state, resp, plan) == [pc |-> state, resp |-> resp, plan |-> plan]

\* flushed counts the flushes the cache acknowledged ("FLUSHALL success")
NoCalls ==
    [age |-> 0, gender |-> 0, nationality |-> 0, create |-> 0, flush |-> 0,
     flushed |-> 0]

\* ---------------------------------------------------------------- HTTP API
Reqs == 1..MaxReqs

\* A query parameter of the URL: given with a value, or not given.
Param(v) == [set |-> TRUE, val |-> v]
NoParam == [set |-> FALSE, val |-> <<>>]

\* c.Query(key) and c.DefaultQuery(key, def)
Query(p) == IF p.set THEN p.val ELSE <<>>
DefaultQuery(p, def) == IF p.set THEN p.val ELSE def

DefaultSize == <<"1", "0">>
DefaultPage == <<"1">>

DecimalDigits == <<"0", "1", "2", "3", "4", "5", "6", "7", "8", "9">>
IsDecimal(c) == \E i \in 1..Len(DecimalDigits) : DecimalDigits[i] = c
DigitVal(c) == (CHOOSE i \in 1..Len(DecimalDigits) : DecimalDigits[i] = c) - 1

RECURSIVE Decimal(_)
Decimal(s) ==
    IF s = <<>> THEN 0
    ELSE Len(DecimalDigits) * Decimal(SubSeq(s, 1, Len(s) - 1)) + DigitVal(s[Len(s)])

\* strconv.Atoi: an optional sign and at least one decimal digit
Atoi(s) ==
    LET signed == s # <<>> /\ s[1] \in {"+", "-"}
        digits == IF signed THEN Tail(s) ELSE s
    IN  IF digits = <<>> \/ \E i \in 1..Len(digits) : ~IsDecimal(digits[i])
        THEN [err |-> TRUE, n |-> 0]
        ELSE [err |-> FALSE,
              n |-> IF signed /\ s[1] = "-" THEN 0 - Decimal(digits)
                    ELSE Decimal(digits)]

\* fmt.Sprintf("entries:%v:%v:%s:%s", intSize, intPage, filterCol, filterData):
\* the two numbers, and the two strings joined by a colon
cacheKey(intSize, intPage, filterCol, filterData) ==
    [size |-> intSize, page |-> intPage, rest |-> filterCol \o <<":">> \o filterData]

\* json.Marshal(entries) and json.Unmarshal([]byte(cacheResult), &entries)
MarshalEntries(es) == [json |-> TRUE, list |-> es]
UnmarshalEntries(b) == IF b.json THEN b.list ELSE <<>>

\* The letters of the gender and nationality values of the model.
Chars(x) ==
    CASE x = "male" -> <<"m", "a", "l", "e">>
      [] x = "female" -> <<"f", "e", "m", "a", "l", "e">>
      [] x = "other" -> <<"o", "t", "h", "e", "r">>
      [] x = "RU" -> <<"R", "U">>
      [] x = "US" -> <<"U", "S">>
      [] x = "ru" -> <<"r", "u">>
      [] OTHER -> <<>>

\* The columns of the entries table that LIKE can be applied to.
TextColumns ==
    { <<"name">>, <<"surname">>, <<"patronymic">>, <<"gender">>, <<"nationality">> }

TextColumn(row, col) ==
    CASE col = <<"name">> -> row.Name
      [] col = <<"surname">> -> row.Surname
      [] col = <<"patronymic">> -> row.Patronymic
      [] col = <<"gender">> -> Chars(row.Gender)
      [] col = <<"nationality">> -> Chars(row.Nationality)

\* text LIKE '%' || sub || '%'
Contains(text, sub) ==
    \E i \in 0..(Len(text) - Len(sub)) : SubSeq(text, i + 1, i + Len(sub)) = sub

\* db.C.Model(&models.Entry{}).Limit(intSize).Offset(offset)
\*     [.Where(filterCol+" LIKE ?", "%"+filterData+"%")].Find(&entries).Error
\* Rows come in creation order.  LIKE on a column that is not text, or on a
\* name that is no column, is an error of the statement.
Find(rows, filterCol, filterData, intSize, offset) ==
    LET filtered == filterCol # <<>> /\ filterData # <<>>
        bad == filtered /\ filterCol \notin TextColumns
        hits == IF filtered /\ ~bad
                THEN SelectSeq(rows, LAMBDA row :
                                 Contains(TextColumn(row, filterCol), filterData))
                ELSE rows
        from == IF offset > 0 THEN offset + 1 ELSE 1
        to == IF intSize >= 0 /\ from + intSize - 1 < Len(hits)
              THEN from + intSize - 1 ELSE Len(hits)
    IN  [err |-> bad, entries |-> IF bad THEN <<>> ELSE SubSeq(hits, from, to)]

\* What a request carries: the outcome of c.ShouldBind with the entry bound
\* (Create, Update, Delete), or the four query parameters (Read).
Input(ok, e, size, page, col, data) ==
    [ok |-> ok, entry |-> e, size |-> size, page |-> page, col |-> col, data |-> data]

Body(ok, e) == Input(ok, e, NoParam, NoParam, NoParam, NoParam)
ReadInput(size, page, col, data) == Input(TRUE, ZeroEntry, size, page, col, data)
NoInput == Body(FALSE, ZeroEntry)

ReadInputs ==
    { ReadInput(NoParam, NoParam, NoParam, NoParam),
      ReadInput(Param(<<"1">>), Param(<<"2">>), NoParam, NoParam),
      ReadInput(NoParam, NoParam, Param(<<"name">>), Param(<<"I", "v">>)),
      ReadInput(NoParam, NoParam, Param(<<"name">>), NoParam),
      ReadInput(Param(<<"x">>), NoParam, NoParam, NoParam),
      ReadInput(NoParam, Param(<<>>), NoParam, NoParam) }

CreateInputs ==
    { Body(FALSE, ZeroEntry),
      Body(TRUE, Entry(0, Ivan, Ivanov, <<>>, 30, "male", "RU")),
      Body(TRUE, Entry(0, Ivan, Ivanov, <<>>, 0, "male", "RU")) }

UpdateInputs ==
    { Body(FALSE, ZeroEntry),
      Body(TRUE, Entry(1, Ivanov, Ivanov, <<>>, 31, "male", "RU")),
      Body(TRUE, Entry(2, Ivanov, Ivanov, <<>>, 31, "male", "RU")),
      Body(TRUE, Entry(1, Ivanov, Ivanov, <<>>, 31, "male", "ru")) }

DeleteInputs ==
    { Body(FALSE, ZeroEntry),
      Body(TRUE, [ZeroEntry EXCEPT !.ID = 1]),
      Body(TRUE, [ZeroEntry EXCEPT !.ID = 2]) }

\* --------------------------------------------------------- GraphQL arguments
\* p.Args[key].(int) and p.Args[key].(string): an argument left out has the
\* default of the schema.
ArgInt(p, def) == IF p.set THEN p.val ELSE def
NoArgInt == [set |-> FALSE, val |-> 0]
ArgString(p) == IF p.set THEN p.val ELSE <<>>

DefaultSizeArg == 10
DefaultPageArg == 1

\* uint8(age) of an int: the low eight bits
uint8OfInt(n) == n % (MaxUint8 + 1)

\* A query that graphql.Do answers with errors before any resolver runs
\* (or a body that does not bind) has ok FALSE; otherwise the arguments of
\* the field, Age holding the int argument as sent.
entriesInputs ==
    { ReadInput(NoArgInt, NoArgInt, NoParam, NoParam),
      ReadInput(Param(1), Param(2), NoParam, NoParam),
      ReadInput(NoArgInt, NoArgInt, Param(<<"name">>), Param(<<"I", "v">>)),
      ReadInput(NoArgInt, NoArgInt, Param(<<"name">>), NoParam),
      ReadInput(NoArgInt, NoArgInt, NoParam, Param(<<"I", "v">>)) }

created_entryInputs ==
    { Body(FALSE, ZeroEntry),
      Body(TRUE, Entry(0, Ivan, Ivanov, <<>>, 30, "male", "RU")),
      Body(TRUE, Entry(0, Ivan, Ivanov, <<>>, 0, "male", "RU")),
      Body(TRUE, Entry(0, Ivan, Ivanov, <<>>, 121, "male", "RU")),
      Body(TRUE, Entry(0, Ivan, Ivanov, <<>>, 257, "male", "RU")) }

updated_entryInputs ==
    { Body(FALSE, ZeroEntry),
      Body(TRUE, Entry(1, Ivanov, Ivanov, <<>>, 31, "male", "RU")),
      Body(TRUE, Entry(1, Ivanov, Ivanov, <<>>, 0, "male", "RU")),
      Body(TRUE, Entry(1, Ivanov, Ivanov, <<>>, 0 - 216, "male", "RU")) }

deleted_entryInputs ==
    { Body(FALSE, ZeroEntry),
      Body(TRUE, [ZeroEntry EXCEPT !.ID = 1]),
      Body(TRUE, [ZeroEntry EXCEPT !.ID = 2]) }

\* The arguments as the entries resolver reads them.
SizeArg(in) == ArgInt(in.size, DefaultSizeArg)
PageArg(in) == ArgInt(in.page, DefaultPageArg)
KeyOfArgs(in) ==
    cacheKey(SizeArg(in), PageArg(in), ArgString(in.col), ArgString(in.data))
FindOfArgs(rows, in) ==
    Find(rows, ArgString(in.col), ArgString(in.data), SizeArg(in),
         (PageArg(in) - 1) * SizeArg(in))

\* models.Entry{...} as the mutations build it from their arguments
EntryOfArgs(args) == [args EXCEPT !.Age = uint8OfInt(args.Age)]

\* Request h and its handler: what was asked, where the handler stands, the
\* status and the entries it answered with, whether the entries came from
\* the cache or the store, whether the handler changed the store and whether
\* the cache acknowledged its flush; what cRedis.Get came to: "hit" (err ==
\* nil), "miss" (an error, redis.Nil or another, the key being absent) or
\* "error" (an error although the cache holds the key).
NoReq ==
    [kind |-> "", pc |-> "idle", input |-> NoInput, status |-> 0,
     entries |-> <<>>, src |-> "", wrote |-> FALSE, flushed |-> FALSE,
     got |-> ""]

\* The parameters as Read parses them.
SizeOf(in) == Atoi(DefaultQuery(in.size, DefaultSize))
PageOf(in) == Atoi(DefaultQuery(in.page, DefaultPage))
KeyOf(in) == cacheKey(SizeOf(in).n, PageOf(in).n, Query(in.col), Query(in.data))
FindOf(rows, in) ==
    Find(rows, Query(in.col), Query(in.data), SizeOf(in).n,
         (PageOf(in).n - 1) * SizeOf(in).n)

\* The inputs of the specification with HTTP requests next to one run of
\* ProcessMsg: one valid message and one undecodable one; per service one
\* answer that succeeds and, for nationality, one that fails.
ApiPayloads == { Garbage, Marshal(FullName(Ivan, Ivanov, Ivanovich, "")) }

ApiResponses ==
    [g \in Svc |->
        CASE g = "age" ->
                { Response("json", ReqData(Num(25), Absent, FALSE, <<>>)) }
          [] g = "gender" ->
                { Response("json", ReqData(Absent, Str("male"), FALSE, <<>>)) }
          [] g = "nationality" ->
                { Response("json", ReqData(Absent, Absent, TRUE, <<>>)),
                  Response("json", ReqData(Absent, Absent, TRUE,
                                           <<CountryObj(Str("RU"))>>)) }]


\* ------------------------------------------------------- validators alone
\* Records handed to FullName.IsValid and Entry.IsValid directly. A Cyrillic
\* letter takes two bytes, so the names sit on both sides of both length
\* rules in letters and in bytes.
ProbeNames ==
    { <<>>, <<"N">>, <<"1">>, <<"ya">>, <<"ya", "ya">>, Ivan, <<"1">> \o Ivan,
      <<"!">> \o Ivan, Rep("a", MaxLen), Rep("a", MaxLen + 1),
      Rep("ya", MaxLen \div 2), Rep("ya", MaxLen \div 2 + 1),
      Rep("ya", MaxLen \div 2) \o <<"1">> }

\* age, gender and nationality of the probed entry
ProbeRest ==
    { [Age |-> 30, Gender |-> "male", Nationality |-> "RU"],
      [Age |-> 0, Gender |-> "male", Nationality |-> "RU"],
      [Age |-> 30, Gender |-> "", Nationality |-> "RU"],
      [Age |-> 30, Gender |-> "female", Nationality |-> "ru"] }

\* fn is the record FullName.IsValid is called on, rest what an Entry has
\* beyond it; full and entry are the causes the two validators returned,
\* call after call.
Probe(fn, rest) == [fn |-> fn, rest |-> rest, full |-> <<>>, entry |-> <<>>]

NoProbe == Probe(ZeroFullName, [Age |-> 0, Gender |-> "", Nationality |-> ""])

Probes ==
    { Probe(FullName(n, s, <<>>, ""), x) :
      n \in ProbeNames, s \in ProbeNames, x \in ProbeRest }

\* the Entry with the names of fn (ProcessMsg builds it the same way)
EntryOf(fn, rest) ==
    Entry(0, fn.Name, fn.Surname, fn.Patronymic, rest.Age, rest.Gender,
          rest.Nationality)

Init ==
    /\ nRead = 0
    /\ dataCh = <<>>
    /\ nRuns = 0
    /\ pc = [r \in Runs |-> "idle"]
    /\ msg = [r \in Runs |-> Garbage]
    /\ dataMsg = [r \in Runs |-> ZeroFullName]
    /\ entry = [r \in Runs |-> ZeroEntry]
    /\ enrichErr = [r \in Runs |-> "pending"]
    /\ lk = [r \in Runs |-> [g \in Svc |-> Lookup("idle", NoResponse, NoPlan)]]
    /\ errCh = [r \in Runs |-> [buf |-> <<>>, closed |-> FALSE]]
    /\ tasks = [r \in Runs |-> 0]
    /\ emitted = [r \in Runs |-> <<>>]
    /\ calls = [r \in Runs |-> NoCalls]
    /\ db = <<>>
    /\ lastID = 0
    /\ cRedis = {}
    /\ prodInput = <<>>
    /\ prodAcks = <<>>
    /\ failLog = <<>>
    /\ crashed = FALSE
    /\ req = [h \in Reqs |-> NoReq]
    /\ probe = NoProbe

\* The validators alone: nothing of the process is running, a record is
\* at hand.
ValidInit ==
    /\ nRead = 0
    /\ dataCh = <<>>
    /\ nRuns = 0
    /\ pc = [r \in Runs |-> "idle"]
    /\ msg = [r \in Runs |-> Garbage]
    /\ dataMsg = [r \in Runs |-> ZeroFullName]
    /\ entry = [r \in Runs |-> ZeroEntry]
    /\ enrichErr = [r \in Runs |-> "pending"]
    /\ lk = [r \in Runs |-> [g \in Svc |-> Lookup("idle", NoResponse, NoPlan)]]
    /\ errCh = [r \in Runs |-> [buf |-> <<>>, closed |-> FALSE]]
    /\ tasks = [r \in Runs |-> 0]
    /\ emitted = [r \in Runs |-> <<>>]
    /\ calls = [r \in Runs |-> NoCalls]
    /\ db = <<>>
    /\ lastID = 0
    /\ cRedis = {}
    /\ prodInput = <<>>
    /\ prodAcks = <<>>
    /\ failLog = <<>>
    /\ crashed = FALSE
    /\ req = [h \in Reqs |-> NoReq]
    /\ probe \in Probes

\* ------------------------------------------------------------------ driver
\* Topic.Consume: case msg := <-reader.Messages(): data <- msg.Value.
\* The consumer holds the value until GetMsg receives it.
\* Consume not waiting for the driver: the value is put aside and the next
\* message is read although the one before it has not been taken.
ConsumeAhead(limit, P) ==
    /\ ~crashed
    /\ nRead < limit
    /\ Len(dataCh) <= 1
    /\ \E p \in P : dataCh' = Append(dataCh, p)
    /\ nRead' = nRead + 1
    /\ UNCHANGED << nRuns, runVars, storeVars, prodVars, crashed, apiVars, valVars >>

Consume(limit, P) ==
    /\ ~crashed
    /\ nRead < limit
    /\ dataCh = <<>>
    /\ \E p \in P : dataCh' = <<p>>
    /\ nRead' = nRead + 1
    /\ UNCHANGED << nRuns, runVars, storeVars, prodVars, crashed, apiVars, valVars >>

\* GetMsg running ProcessMsg itself: the next message is received when the
\* run before it has returned.
GetMsgInline ==
    /\ ~crashed
    /\ dataCh # <<>>
    /\ nRuns < MaxMsgs
    /\ \A r \in 1..nRuns : pc[r] = "done"
    /\ LET r == nRuns + 1 IN
        /\ nRuns' = r
        /\ msg' = [msg EXCEPT ![r] = dataCh[1]]
        /\ pc' = [pc EXCEPT ![r] = "unmarshal"]
    /\ dataCh' = <<>>
    /\ UNCHANGED << nRead, dataMsg, entry, enrichErr, lk, errCh, tasks, emitted,
                    calls, storeVars, prodVars, crashed, apiVars, valVars >>

\* GetMsg: go ProcessMsg(<-dataCh)
GetMsg ==
    /\ ~crashed
    /\ dataCh # <<>>
    /\ nRuns < MaxMsgs
    /\ LET r == nRuns + 1 IN
        /\ nRuns' = r
        /\ msg' = [msg EXCEPT ![r] = dataCh[1]]
        /\ pc' = [pc EXCEPT ![r] = "unmarshal"]
    /\ dataCh' = <<>>
    /\ UNCHANGED << nRead, dataMsg, entry, enrichErr, lk, errCh, tasks, emitted,
                    calls, storeVars, prodVars, crashed, apiVars, valVars >>

\* -------------------------------------------------------------- ProcessMsg
\* failTopic.Produce(val, failProducer) up to prod.Input() <- message
ToProduce(r, val) ==
    /\ pc' = [pc EXCEPT ![r] = "produce"]
    /\ emitted' = [emitted EXCEPT ![r] = Append(@, val)]

\* dataMsg.Error = cause; jsonData, err := json.Marshal(dataMsg);
\* failTopic.Produce(jsonData, failProducer).  Marshal of a struct of four
\* strings cannot fail.
DeadLetter(r, cause) ==
    /\ dataMsg' = [dataMsg EXCEPT ![r].Error = cause]
    /\ ToProduce(r, Marshal([dataMsg[r] EXCEPT !.Error = cause]))

\* err := json.Unmarshal(msg, &dataMsg)
ProcessMsgUnmarshal(r) ==
    /\ ~crashed
    /\ pc[r] = "unmarshal"
    /\ LET u == Unmarshal(msg[r]) IN
        IF u.err
        THEN /\ ToProduce(r, msg[r])
             /\ UNCHANGED dataMsg
        ELSE /\ dataMsg' = [dataMsg EXCEPT ![r] = u.val]
             /\ pc' = [pc EXCEPT ![r] = "validate"]
             /\ UNCHANGED emitted
    /\ UNCHANGED << driverVars, msg, entry, enrichErr, lk, errCh, tasks, calls,
                    storeVars, prodVars, crashed, apiVars, valVars >>

\* result := dataMsg.IsValid(); on "" the entry is built from dataMsg
ProcessMsgValidate(r) ==
    /\ ~crashed
    /\ pc[r] = "validate"
    /\ LET result == FullNameIsValid(dataMsg[r]) IN
        IF result # ""
        THEN /\ DeadLetter(r, result)
             /\ UNCHANGED entry
        ELSE /\ entry' = [entry EXCEPT ![r] =
                    Entry(0, dataMsg[r].Name, dataMsg[r].Surname,
                          dataMsg[r].Patronymic, 0, "", "")]
             /\ pc' = [pc EXCEPT ![r] = "enrich"]
             /\ UNCHANGED << dataMsg, emitted >>
    /\ UNCHANGED << driverVars, msg, enrichErr, lk, errCh, tasks, calls,
                    storeVars, prodVars, crashed, apiVars, valVars >>

\* ------------------------------------------------------------------ Enrich
\* entry.Enrich(entry.Name) up to the range over errCh: the channel is made
\* with one slot, the wait group is set to three and the goroutines start.
EnrichStart(r) ==
    /\ ~crashed
    /\ pc[r] = "enrich"
    /\ errCh' = [errCh EXCEPT ![r] = [buf |-> <<>>, closed |-> FALSE]]
    /\ tasks' = [tasks EXCEPT ![r] = NTasks]
    /\ lk' = [lk EXCEPT ![r] = [g \in Svc |-> Lookup("req", NoResponse, NoPlan)]]
    /\ pc' = [pc EXCEPT ![r] = "recv"]
    /\ UNCHANGED << driverVars, msg, dataMsg, entry, enrichErr, emitted, calls,
                    storeVars, prodVars, crashed, apiVars, valVars >>

\* A lookup goroutine performs its request and reads the response map.
LookupReq(r, g, R) ==
    /\ ~crashed
    /\ lk[r][g].pc = "req"
    /\ \E resp \in R[g] :
        lk' = [lk EXCEPT ![r][g] = Lookup("run", resp, PlanOf(g, resp))]
    /\ calls' = [calls EXCEPT ![r][g] = @ + 1]
    /\ UNCHANGED << driverVars, pc, msg, dataMsg, entry, enrichErr, errCh, tasks,
                    emitted, storeVars, prodVars, crashed, apiVars, valVars >>

\* ch <- err: completes only while the channel has a free slot
LookupSend(r, g) ==
    /\ ~crashed
    /\ lk[r][g].pc = "run"
    /\ lk[r][g].plan.sends # <<>>
    /\ Len(errCh[r].buf) < ErrChCap
    /\ errCh' = [errCh EXCEPT ![r].buf = Append(@, Head(lk[r][g].plan.sends))]
    /\ lk' = [lk EXCEPT ![r][g].plan.sends = Tail(@)]
    /\ UNCHANGED << driverVars, pc, msg, dataMsg, entry, enrichErr, tasks,
                    emitted, calls, storeVars, prodVars, crashed, apiVars, valVars >>

\* countryList[0] on an empty list: index out of range, in a goroutine that
\* nothing recovers, so the process ends.
LookupPanic(r, g) ==
    /\ ~crashed
    /\ lk[r][g].pc = "run"
    /\ lk[r][g].plan.sends = <<>>
    /\ lk[r][g].plan.panics
    /\ lk' = [lk EXCEPT ![r][g].pc = "panic"]
    /\ crashed' = TRUE
    /\ UNCHANGED << driverVars, pc, msg, dataMsg, entry, enrichErr, errCh, tasks,
                    emitted, calls, storeVars, prodVars, apiVars, valVars >>

\* The pointer the goroutine was given: &e.Age, &e.Gender or &e.Nationality
Store(e, g, out, a) ==
    CASE g = "age" -> [e EXCEPT !.Age = a]
      [] g = "gender" -> [e EXCEPT !.Gender = out.s]
      [] g = "nationality" -> [e EXCEPT !.Nationality = out.s]

\* *age = uint8(target) (or *gender, *nation), then the deferred wg.Done()
LookupDone(r, g) ==
    /\ ~crashed
    /\ lk[r][g].pc = "run"
    /\ lk[r][g].plan.sends = <<>>
    /\ ~lk[r][g].plan.panics
    /\ \E a \in uint8(lk[r][g].plan.out.n) :
        entry' = [entry EXCEPT ![r] = Store(@, g, lk[r][g].plan.out, a)]
    /\ tasks' = [tasks EXCEPT ![r] = @ - 1]
    /\ lk' = [lk EXCEPT ![r][g].pc = "done"]
    /\ UNCHANGED << driverVars, pc, msg, dataMsg, enrichErr, errCh, emitted,
                    calls, storeVars, prodVars, crashed, apiVars, valVars >>

\* close(errCh) without tasks.Wait(): the channel is closed while lookups
\* may still run.
EnrichCloseWithoutWait(r) ==
    /\ ~crashed
    /\ \A g \in Svc : lk[r][g].pc # "idle"
    /\ ~errCh[r].closed
    /\ errCh' = [errCh EXCEPT ![r].closed = TRUE]
    /\ UNCHANGED << driverVars, pc, msg, dataMsg, entry, enrichErr, lk, tasks,
                    emitted, calls, storeVars, prodVars, crashed, apiVars, valVars >>

\* go func() { tasks.Wait(); close(errCh) }()
EnrichClose(r) ==
    /\ ~crashed
    /\ \A g \in Svc : lk[r][g].pc # "idle"
    /\ tasks[r] = 0
    /\ ~errCh[r].closed
    /\ errCh' = [errCh EXCEPT ![r].closed = TRUE]
    /\ UNCHANGED << driverVars, pc, msg, dataMsg, entry, enrichErr, lk, tasks,
                    emitted, calls, storeVars, prodVars, crashed, apiVars, valVars >>

\* for err := range errCh { return err }; return nil
EnrichReturn(r) ==
    /\ ~crashed
    /\ pc[r] = "recv"
    /\ \/ /\ errCh[r].buf # <<>>
          /\ errCh' = [errCh EXCEPT ![r].buf = Tail(@)]
          /\ enrichErr' = [enrichErr EXCEPT ![r] = Head(errCh[r].buf)]
       \/ /\ errCh[r].buf = <<>>
          /\ errCh[r].closed
          /\ enrichErr' = [enrichErr EXCEPT ![r] = ""]
          /\ UNCHANGED errCh
    /\ pc' = [pc EXCEPT ![r] = "enriched"]
    /\ UNCHANGED << driverVars, msg, dataMsg, entry, lk, tasks, emitted, calls,
                    storeVars, prodVars, crashed, apiVars, valVars >>

\* ProcessMsg going on to the create whatever Enrich returned.
ProcessMsgEnrichedAnyway(r) ==
    /\ ~crashed
    /\ pc[r] = "enriched"
    /\ pc' = [pc EXCEPT ![r] = "create"]
    /\ UNCHANGED << driverVars, msg, dataMsg, entry, enrichErr, lk, errCh, tasks,
                    emitted, calls, storeVars, prodVars, crashed, apiVars, valVars >>

\* err := entry.Enrich(entry.Name); if err != nil { dataMsg.Error = ...;
\* failTopic.Produce(jsonData, failProducer); return }
ProcessMsgEnriched(r) ==
    /\ ~crashed
    /\ pc[r] = "enriched"
    /\ IF enrichErr[r] # ""
       THEN DeadLetter(r, "Failed to enrich data from API: " \o enrichErr[r])
       ELSE /\ pc' = [pc EXCEPT ![r] = "create"]
            /\ UNCHANGED << dataMsg, emitted >>
    /\ UNCHANGED << driverVars, msg, entry, enrichErr, lk, errCh, tasks, calls,
                    storeVars, prodVars, crashed, apiVars, valVars >>

\* ------------------------------------------------------- store and cache
StoreErr == "ERROR: could not insert row"

\* Create inserting the entry a second time after the first insert.
CreateTwice(r) ==
    /\ ~crashed
    /\ pc[r] = "create"
    /\ calls' = [calls EXCEPT ![r].create = @ + 1]
    /\ \/ /\ entry' = [entry EXCEPT ![r].ID = lastID + 2]
          /\ db' = db \o << [entry[r] EXCEPT !.ID = lastID + 1],
                            [entry[r] EXCEPT !.ID = lastID + 2] >>
          /\ lastID' = lastID + 2
          /\ pc' = [pc EXCEPT ![r] = "flush"]
          /\ UNCHANGED << dataMsg, emitted >>
       \/ /\ DeadLetter(r, "Failed to create entry: " \o StoreErr)
          /\ UNCHANGED << entry, db, lastID >>
    /\ UNCHANGED << driverVars, msg, enrichErr, lk, errCh, tasks, cRedis,
                    prodVars, crashed, apiVars, valVars >>

\* Create as an upsert under the first id of the table: a row that exists
\* is replaced by the new entry.
CreateOrReplace(r) ==
    /\ ~crashed
    /\ pc[r] = "create"
    /\ calls' = [calls EXCEPT ![r].create = @ + 1]
    /\ \/ /\ IF db = <<>>
             THEN LET id == lastID + 1 IN
                      /\ entry' = [entry EXCEPT ![r].ID = id]
                      /\ db' = Append(db, [entry[r] EXCEPT !.ID = id])
                      /\ lastID' = id
             ELSE /\ entry' = [entry EXCEPT ![r].ID = db[1].ID]
                  /\ db' = [db EXCEPT ![1] = [entry[r] EXCEPT !.ID = db[1].ID]]
                  /\ UNCHANGED lastID
          /\ pc' = [pc EXCEPT ![r] = "flush"]
          /\ UNCHANGED << dataMsg, emitted >>
       \/ /\ DeadLetter(r, "Failed to create entry: " \o StoreErr)
          /\ UNCHANGED << entry, db, lastID >>
    /\ UNCHANGED << driverVars, msg, enrichErr, lk, errCh, tasks, cRedis,
                    prodVars, crashed, apiVars, valVars >>

\* Create with the store's error dropped: the run goes on to the flush as if
\* the row had been written.
CreateIgnoringError(r) ==
    /\ ~crashed
    /\ pc[r] = "create"
    /\ calls' = [calls EXCEPT ![r].create = @ + 1]
    /\ \/ LET id == lastID + 1 IN
              /\ entry' = [entry EXCEPT ![r].ID = id]
              /\ db' = Append(db, [entry[r] EXCEPT !.ID = id])
              /\ lastID' = id
       \/ UNCHANGED << entry, db, lastID >>
    /\ pc' = [pc EXCEPT ![r] = "flush"]
    /\ UNCHANGED << driverVars, msg, dataMsg, enrichErr, lk, errCh, tasks, emitted,
                    cRedis, prodVars, crashed, apiVars, valVars >>

\* err = db.C.Create(&entry).Error
Create(r) ==
    /\ ~crashed
    /\ pc[r] = "create"
    /\ calls' = [calls EXCEPT ![r].create = @ + 1]
    /\ \/ /\ LET id == lastID + 1 IN
              /\ entry' = [entry EXCEPT ![r].ID = id]
              /\ db' = Append(db, [entry[r] EXCEPT !.ID = id])
              /\ lastID' = id
          /\ pc' = [pc EXCEPT ![r] = "flush"]
          /\ UNCHANGED << dataMsg, emitted >>
       \/ /\ DeadLetter(r, "Failed to create entry: " \o StoreErr)
          /\ UNCHANGED << entry, db, lastID >>
    /\ UNCHANGED << driverVars, msg, enrichErr, lk, errCh, tasks, cRedis,
                    prodVars, crashed, apiVars, valVars >>

\* FlushAll with a failed flush treated like the failures before it: the
\* message is sent to the failure topic.
FlushAllOrDeadLetter(r) ==
    /\ ~crashed
    /\ pc[r] = "flush"
    /\ \/ /\ cRedis' = {}
          /\ calls' = [calls EXCEPT ![r].flush = @ + 1, ![r].flushed = @ + 1]
          /\ pc' = [pc EXCEPT ![r] = "done"]
          /\ UNCHANGED << dataMsg, emitted >>
       \/ /\ UNCHANGED cRedis
          /\ calls' = [calls EXCEPT ![r].flush = @ + 1]
          /\ DeadLetter(r, "FLUSHALL failed")
    /\ UNCHANGED << driverVars, msg, entry, enrichErr, lk, errCh, tasks, db, lastID,
                    prodVars, crashed, apiVars, valVars >>

\* status, err := cRedis.FlushAll(ctx).Result(): a failure is only logged
FlushAll(r) ==
    /\ ~crashed
    /\ pc[r] = "flush"
    /\ \/ /\ cRedis' = {}
          /\ calls' = [calls EXCEPT ![r].flush = @ + 1, ![r].flushed = @ + 1]
       \/ /\ UNCHANGED cRedis
          /\ calls' = [calls EXCEPT ![r].flush = @ + 1]
    /\ pc' = [pc EXCEPT ![r] = "done"]
    /\ UNCHANGED << driverVars, msg, dataMsg, entry, enrichErr, lk, errCh, tasks,
                    emitted, db, lastID, prodVars, crashed, apiVars, valVars >>

\* ----------------------------------------------------------------- Produce
\* prod.Input() <- message
ProduceInput(r) ==
    /\ ~crashed
    /\ pc[r] = "produce"
    /\ prodInput' = Append(prodInput, emitted[r][Len(emitted[r])])
    /\ pc' = [pc EXCEPT ![r] = "ack"]
    /\ UNCHANGED << driverVars, msg, dataMsg, entry, enrichErr, lk, errCh, tasks,
                    emitted, calls, storeVars, prodAcks, failLog, crashed, apiVars, valVars >>

\* The producer delivers the oldest message to the broker and reports on
\* Successes(), or fails and reports on Errors().
Deliver ==
    /\ ~crashed
    /\ prodInput # <<>>
    /\ prodInput' = Tail(prodInput)
    /\ \/ /\ failLog' = Append(failLog, Head(prodInput))
          /\ prodAcks' = Append(prodAcks, TRUE)
       \/ /\ prodAcks' = Append(prodAcks, FALSE)
          /\ UNCHANGED failLog
    /\ UNCHANGED << driverVars, runVars, storeVars, crashed, apiVars, valVars >>

\* Produce publishing the message again when the producer reported an error.
ProduceReturnOrRetry(r) ==
    /\ ~crashed
    /\ pc[r] = "ack"
    /\ prodAcks # <<>>
    /\ prodAcks' = Tail(prodAcks)
    /\ IF Head(prodAcks)
       THEN /\ pc' = [pc EXCEPT ![r] = "done"]
            /\ UNCHANGED emitted
       ELSE ToProduce(r, emitted[r][Len(emitted[r])])
    /\ UNCHANGED << driverVars, msg, dataMsg, entry, enrichErr, lk, errCh, tasks,
                    calls, storeVars, prodInput, failLog, crashed, apiVars, valVars >>

\* select { case <-prod.Successes(): ... case <-prod.Errors(): ... }
ProduceReturn(r) ==
    /\ ~crashed
    /\ pc[r] = "ack"
    /\ prodAcks # <<>>
    /\ prodAcks' = Tail(prodAcks)
    /\ pc' = [pc EXCEPT ![r] = "done"]
    /\ UNCHANGED << driverVars, msg, dataMsg, entry, enrichErr, lk, errCh, tasks,
                    emitted, calls, storeVars, prodInput, failLog, crashed, apiVars, valVars >>

\* ---------------------------------------------------------- HTTP handlers
\* Requests are numbered in the order they arrive.
Arrives(h) == req[h].pc = "idle" /\ \A k \in Reqs : k < h => req[k].pc # "idle"

\* c.JSON(status, ...): the handler answers and returns
Reply(q, status) == [q EXCEPT !.pc = "done", !.status = status]

otherVars == << driverVars, runVars, prodVars, crashed, valVars >>

\* Read with the cache answering from whatever entry it holds, the key not
\* compared.
ReadGetAnyKey(h) ==
    /\ ~crashed
    /\ Arrives(h)
    /\ \E in \in ReadInputs :
        LET q == [NoReq EXCEPT !.kind = "Read", !.input = in]
            filterCol == Query(in.col)
            filterData == Query(in.data)
        IN  IF \/ filterCol # <<>> /\ filterData = <<>>
               \/ filterCol = <<>> /\ filterData # <<>>
            THEN req' = [req EXCEPT ![h] = Reply(q, 400)]
            ELSE IF SizeOf(in).err
            THEN req' = [req EXCEPT ![h] = Reply(q, 400)]
            ELSE IF PageOf(in).err
            THEN req' = [req EXCEPT ![h] = Reply(q, 400)]
            ELSE \/ \E c \in cRedis :
                      req' = [req EXCEPT ![h] =
                            [Reply(q, 200) EXCEPT
                                !.entries = UnmarshalEntries(c.val),
                                !.src = "cache",
                                !.got = "hit"]]
                 \/ /\ cRedis = {}
                    /\ req' = [req EXCEPT ![h] =
                                  [q EXCEPT !.pc = "find", !.got = "miss"]]
                 \/ /\ cRedis # {}
                    /\ req' = [req EXCEPT ![h] =
                                  [q EXCEPT !.pc = "find", !.got = "error"]]
    /\ UNCHANGED << otherVars, storeVars >>

\* Read up to the answer from the cache: the parameters are checked and the
\* key is looked up; any error of cRedis.Get sends the handler to the store.
ReadGet(h) ==
    /\ ~crashed
    /\ Arrives(h)
    /\ \E in \in ReadInputs :
        LET q == [NoReq EXCEPT !.kind = "Read", !.input = in]
            filterCol == Query(in.col)
            filterData == Query(in.data)
        IN  IF \/ filterCol # <<>> /\ filterData = <<>>
               \/ filterCol = <<>> /\ filterData # <<>>
            THEN req' = [req EXCEPT ![h] = Reply(q, 400)]
            ELSE IF SizeOf(in).err
            THEN req' = [req EXCEPT ![h] = Reply(q, 400)]
            ELSE IF PageOf(in).err
            THEN req' = [req EXCEPT ![h] = Reply(q, 400)]
            ELSE \/ \E c \in cRedis :
                      /\ c.key = KeyOf(in)
                      /\ req' = [req EXCEPT ![h] =
                            [Reply(q, 200) EXCEPT
                                !.entries = UnmarshalEntries(c.val),
                                !.src = "cache",
                                !.got = "hit"]]
                 \/ /\ \A c \in cRedis : c.key # KeyOf(in)
                    /\ req' = [req EXCEPT ![h] =
                                  [q EXCEPT !.pc = "find", !.got = "miss"]]
                 \/ /\ \E c \in cRedis : c.key = KeyOf(in)
                    /\ req' = [req EXCEPT ![h] =
                                  [q EXCEPT !.pc = "find", !.got = "error"]]
    /\ UNCHANGED << otherVars, storeVars >>

\* Read: the query of the store
ReadFind(h) ==
    /\ ~crashed
    /\ req[h].kind = "Read"
    /\ req[h].pc = "find"
    /\ LET found == FindOf(db, req[h].input) IN
        \/ /\ ~found.err
           /\ req' = [req EXCEPT ![h].pc = "set",
                                 ![h].entries = found.entries,
                                 ![h].src = "db"]
        \/ req' = [req EXCEPT ![h] = Reply(@, 500)]
    /\ UNCHANGED << otherVars, storeVars >>

\* Read: cRedis.Set(ctx, cacheKey, jsonData, 0), its result ignored, and the
\* answer.  "at" is history: the id sequence at the time the key was set.
ReadSet(h) ==
    /\ ~crashed
    /\ req[h].kind = "Read"
    /\ req[h].pc = "set"
    /\ LET key == KeyOf(req[h].input) IN
        \/ cRedis' = { c \in cRedis : c.key # key } \cup
                     { [key |-> key, val |-> MarshalEntries(req[h].entries),
                        at |-> lastID] }
        \/ UNCHANGED cRedis
    /\ req' = [req EXCEPT ![h] = Reply(@, 200)]
    /\ UNCHANGED << otherVars, db, lastID >>

\* Create without the call of IsValid: whatever was bound is stored.
CreateInsertUnchecked(h) ==
    /\ ~crashed
    /\ Arrives(h)
    /\ \E in \in CreateInputs :
        LET q == [NoReq EXCEPT !.kind = "Create", !.input = in]
            id == IF in.entry.ID = 0 THEN lastID + 1 ELSE in.entry.ID
        IN  IF ~in.ok
            THEN /\ req' = [req EXCEPT ![h] = Reply(q, 400)]
                 /\ UNCHANGED << db, lastID >>
            ELSE \/ /\ \A i \in 1..Len(db) : db[i].ID # id
                    /\ db' = Append(db, [in.entry EXCEPT !.ID = id])
                    /\ lastID' = IF in.entry.ID = 0 THEN id ELSE lastID
                    /\ req' = [req EXCEPT ![h] =
                                  [q EXCEPT !.pc = "flush", !.wrote = TRUE]]
                 \/ /\ req' = [req EXCEPT ![h] = Reply(q, 500)]
                    /\ UNCHANGED << db, lastID >>
    /\ UNCHANGED << otherVars, cRedis >>

\* Create up to db.C.Create(&newEntry): a bound entry without an ID gets the
\* next one of the sequence.
CreateInsert(h) ==
    /\ ~crashed
    /\ Arrives(h)
    /\ \E in \in CreateInputs :
        LET q == [NoReq EXCEPT !.kind = "Create", !.input = in]
            id == IF in.entry.ID = 0 THEN lastID + 1 ELSE in.entry.ID
        IN  IF ~in.ok
            THEN /\ req' = [req EXCEPT ![h] = Reply(q, 400)]
                 /\ UNCHANGED << db, lastID >>
            ELSE IF EntryIsValid(in.entry) # ""
            THEN /\ req' = [req EXCEPT ![h] = Reply(q, 422)]
                 /\ UNCHANGED << db, lastID >>
            ELSE \/ /\ \A i \in 1..Len(db) : db[i].ID # id
                    /\ db' = Append(db, [in.entry EXCEPT !.ID = id])
                    /\ lastID' = IF in.entry.ID = 0 THEN id ELSE lastID
                    /\ req' = [req EXCEPT ![h] =
                                  [q EXCEPT !.pc = "flush", !.wrote = TRUE]]
                 \/ /\ req' = [req EXCEPT ![h] = Reply(q, 500)]
                    /\ UNCHANGED << db, lastID >>
    /\ UNCHANGED << otherVars, cRedis >>

\* Update up to db.C.Model(...).Where("id = ?", updEntry.ID).Updates(...):
\* a statement that matches no row is no error.
UpdateRows(h) ==
    /\ ~crashed
    /\ Arrives(h)
    /\ \E in \in UpdateInputs :
        LET q == [NoReq EXCEPT !.kind = "Update", !.input = in] IN
            IF ~in.ok
            THEN /\ req' = [req EXCEPT ![h] = Reply(q, 400)]
                 /\ UNCHANGED db
            ELSE IF EntryIsValid(in.entry) # ""
            THEN /\ req' = [req EXCEPT ![h] = Reply(q, 422)]
                 /\ UNCHANGED db
            ELSE \/ /\ db' = [i \in 1..Len(db) |->
                                IF db[i].ID = in.entry.ID THEN in.entry ELSE db[i]]
                    /\ req' = [req EXCEPT ![h] =
                                  [q EXCEPT !.pc = "flush", !.wrote = TRUE]]
                 \/ /\ req' = [req EXCEPT ![h] = Reply(q, 404)]
                    /\ UNCHANGED db
    /\ UNCHANGED << otherVars, lastID, cRedis >>

\* Delete up to db.C.First(&entry, "id = ?", delEntry.ID)
DeleteFirst(h) ==
    /\ ~crashed
    /\ Arrives(h)
    /\ \E in \in DeleteInputs :
        LET q == [NoReq EXCEPT !.kind = "Delete", !.input = in] IN
            IF ~in.ok
            THEN req' = [req EXCEPT ![h] = Reply(q, 400)]
            ELSE \/ \E i \in 1..Len(db) :
                      /\ db[i].ID = in.entry.ID
                      /\ req' = [req EXCEPT ![h] =
                                    [q EXCEPT !.pc = "delete", !.entries = <<db[i]>>]]
                 \/ req' = [req EXCEPT ![h] = Reply(q, 404)]
    /\ UNCHANGED << otherVars, storeVars >>

\* Delete with the error of the store only logged: the handler goes on to
\* the flush although no row was removed.
DeleteRowThenFlushAnyway(h) ==
    /\ ~crashed
    /\ req[h].kind = "Delete"
    /\ req[h].pc = "delete"
    /\ \/ /\ db' = SelectSeq(db, LAMBDA row : row.ID # req[h].entries[1].ID)
          /\ req' = [req EXCEPT ![h].pc = "flush", ![h].wrote = TRUE]
       \/ /\ req' = [req EXCEPT ![h].pc = "flush"]
          /\ UNCHANGED db
    /\ UNCHANGED << otherVars, lastID, cRedis >>

\* Delete: db.C.Unscoped().Delete(&entry)
DeleteRow(h) ==
    /\ ~crashed
    /\ req[h].kind = "Delete"
    /\ req[h].pc = "delete"
    /\ \/ /\ db' = SelectSeq(db, LAMBDA row : row.ID # req[h].entries[1].ID)
          /\ req' = [req EXCEPT ![h].pc = "flush", ![h].wrote = TRUE]
       \/ /\ req' = [req EXCEPT ![h] = Reply(@, 500)]
          /\ UNCHANGED db
    /\ UNCHANGED << otherVars, lastID, cRedis >>

\* status, err := cRedis.FlushAll(ctx).Result(), a failure only logged, and
\* c.JSON(200, gin.H{"message": "Success"})
FlushAndReply(h) ==
    /\ ~crashed
    /\ req[h].pc = "flush"
    /\ \/ /\ cRedis' = {}
          /\ req' = [req EXCEPT ![h] = [Reply(@, 200) EXCEPT !.flushed = TRUE]]
       \/ /\ UNCHANGED cRedis
          /\ req' = [req EXCEPT ![h] = Reply(@, 200)]
    /\ UNCHANGED << otherVars, db, lastID >>

CreateFlush(h) == req[h].kind = "Create" /\ FlushAndReply(h)
UpdateFlush(h) == req[h].kind = "Update" /\ FlushAndReply(h)
DeleteFlush(h) == req[h].kind = "Delete" /\ FlushAndReply(h)

\* ----------------------------------------------------------------- GraphQL
\* GraphQL answers 400 when graphql.Do reports errors, an error returned by
\* a resolver among them, and 200 otherwise.
\* rootQuery entries up to the answer from the cache.
entriesGetNoFallthrough(h) ==
    /\ ~crashed
    /\ Arrives(h)
    /\ \E in \in entriesInputs :
        LET q == [NoReq EXCEPT !.kind = "entries", !.input = in]
            filterCol == ArgString(in.col)
            filterData == ArgString(in.data)
        IN  IF ~in.ok
            THEN req' = [req EXCEPT ![h] = Reply(q, 400)]
            ELSE IF filterCol = <<>> /\ filterData # <<>>
            THEN req' = [req EXCEPT ![h] = Reply(q, 400)]
            ELSE \/ \E c \in cRedis :
                      /\ c.key = KeyOfArgs(in)
                      /\ req' = [req EXCEPT ![h] =
                            [Reply(q, 200) EXCEPT
                                !.entries = UnmarshalEntries(c.val),
                                !.src = "cache",
                                !.got = "hit"]]
                 \/ /\ \A c \in cRedis : c.key # KeyOfArgs(in)
                    /\ req' = [req EXCEPT ![h] =
                                  [q EXCEPT !.pc = "find", !.got = "miss"]]
                 \/ /\ \E c \in cRedis : c.key = KeyOfArgs(in)
                    /\ req' = [req EXCEPT ![h] =
                                  [q EXCEPT !.pc = "find", !.got = "error"]]
    /\ UNCHANGED << otherVars, storeVars >>

\* rootQuery entries up to the answer from the cache: the two cases of the
\* switch share one body through fallthrough.
entriesGet(h) ==
    /\ ~crashed
    /\ Arrives(h)
    /\ \E in \in entriesInputs :
        LET q == [NoReq EXCEPT !.kind = "entries", !.input = in]
            filterCol == ArgString(in.col)
            filterData == ArgString(in.data)
        IN  IF ~in.ok
            THEN req' = [req EXCEPT ![h] = Reply(q, 400)]
            ELSE IF \/ filterCol # <<>> /\ filterData = <<>>
                    \/ filterCol = <<>> /\ filterData # <<>>
            THEN req' = [req EXCEPT ![h] = Reply(q, 400)]
            ELSE \/ \E c \in cRedis :
                      /\ c.key = KeyOfArgs(in)
                      /\ req' = [req EXCEPT ![h] =
                            [Reply(q, 200) EXCEPT
                                !.entries = UnmarshalEntries(c.val),
                                !.src = "cache",
                                !.got = "hit"]]
                 \/ /\ \A c \in cRedis : c.key # KeyOfArgs(in)
                    /\ req' = [req EXCEPT ![h] =
                                  [q EXCEPT !.pc = "find", !.got = "miss"]]
                 \/ /\ \E c \in cRedis : c.key = KeyOfArgs(in)
                    /\ req' = [req EXCEPT ![h] =
                                  [q EXCEPT !.pc = "find", !.got = "error"]]
    /\ UNCHANGED << otherVars, storeVars >>

\* entries: the query of the store
entriesFind(h) ==
    /\ ~crashed
    /\ req[h].kind = "entries"
    /\ req[h].pc = "find"
    /\ LET found == FindOfArgs(db, req[h].input) IN
        \/ /\ ~found.err
           /\ req' = [req EXCEPT ![h].pc = "set",
                                 ![h].entries = found.entries,
                                 ![h].src = "db"]
        \/ req' = [req EXCEPT ![h] = Reply(@, 400)]
    /\ UNCHANGED << otherVars, storeVars >>

\* entries: cRedis.Set(ctx, cacheKey, jsonData, 0), its result ignored
entriesSet(h) ==
    /\ ~crashed
    /\ req[h].kind = "entries"
    /\ req[h].pc = "set"
    /\ LET key == KeyOfArgs(req[h].input) IN
        \/ cRedis' = { c \in cRedis : c.key # key } \cup
                     { [key |-> key, val |-> MarshalEntries(req[h].entries),
                        at |-> lastID] }
        \/ UNCHANGED cRedis
    /\ req' = [req EXCEPT ![h] = Reply(@, 200)]
    /\ UNCHANGED << otherVars, db, lastID >>

\* rootMutation created_entry up to db.C.Create(&newEntry)
created_entry(h) ==
    /\ ~crashed
    /\ Arrives(h)
    /\ \E in \in created_entryInputs :
        LET q == [NoReq EXCEPT !.kind = "created_entry", !.input = in]
            newEntry == EntryOfArgs(in.entry)
            id == lastID + 1
        IN  IF ~in.ok
            THEN /\ req' = [req EXCEPT ![h] = Reply(q, 400)]
                 /\ UNCHANGED << db, lastID >>
            ELSE IF EntryIsValid(newEntry) # ""
            THEN /\ req' = [req EXCEPT ![h] = Reply(q, 400)]
                 /\ UNCHANGED << db, lastID >>
            ELSE \/ /\ db' = Append(db, [newEntry EXCEPT !.ID = id])
                    /\ lastID' = id
                    /\ req' = [req EXCEPT ![h] =
                                  [q EXCEPT !.pc = "flush", !.wrote = TRUE]]
                 \/ /\ req' = [req EXCEPT ![h] = Reply(q, 400)]
                    /\ UNCHANGED << db, lastID >>
    /\ UNCHANGED << otherVars, cRedis >>

\* rootMutation updated_entry up to db.C.Model(...).Where(...).Updates(...):
\* a statement that matches no row is no error.
updated_entry(h) ==
    /\ ~crashed
    /\ Arrives(h)
    /\ \E in \in updated_entryInputs :
        LET q == [NoReq EXCEPT !.kind = "updated_entry", !.input = in]
            updEntry == EntryOfArgs(in.entry)
        IN  IF ~in.ok
            THEN /\ req' = [req EXCEPT ![h] = Reply(q, 400)]
                 /\ UNCHANGED db
            ELSE IF EntryIsValid(updEntry) # ""
            THEN /\ req' = [req EXCEPT ![h] = Reply(q, 400)]
                 /\ UNCHANGED db
            ELSE \/ /\ db' = [i \in 1..Len(db) |->
                                IF db[i].ID = updEntry.ID THEN updEntry ELSE db[i]]
                    /\ req' = [req EXCEPT ![h] =
                                  [q EXCEPT !.pc = "flush", !.wrote = TRUE]]
                 \/ /\ req' = [req EXCEPT ![h] = Reply(q, 400)]
                    /\ UNCHANGED db
    /\ UNCHANGED << otherVars, lastID, cRedis >>

\* deleted_entry with the row looked up and deleted without a check of
\* either result.
deleted_entryFirstUnchecked(h) ==
    /\ ~crashed
    /\ Arrives(h)
    /\ \E in \in deleted_entryInputs :
        LET q == [NoReq EXCEPT !.kind = "deleted_entry", !.input = in] IN
            IF ~in.ok
            THEN req' = [req EXCEPT ![h] = Reply(q, 400)]
            ELSE req' = [req EXCEPT ![h] =
                            [q EXCEPT !.pc = "delete", !.entries = <<in.entry>>]]
    /\ UNCHANGED << otherVars, storeVars >>

\* rootMutation deleted_entry up to db.C.First(&delEntry, "id = ?", delEntry.ID)
deleted_entryFirst(h) ==
    /\ ~crashed
    /\ Arrives(h)
    /\ \E in \in deleted_entryInputs :
        LET q == [NoReq EXCEPT !.kind = "deleted_entry", !.input = in] IN
            IF ~in.ok
            THEN req' = [req EXCEPT ![h] = Reply(q, 400)]
            ELSE \/ \E i \in 1..Len(db) :
                      /\ db[i].ID = in.entry.ID
                      /\ req' = [req EXCEPT ![h] =
                                    [q EXCEPT !.pc = "delete", !.entries = <<db[i]>>]]
                 \/ req' = [req EXCEPT ![h] = Reply(q, 400)]
    /\ UNCHANGED << otherVars, storeVars >>

\* deleted_entry: db.C.Unscoped().Delete(&delEntry)
deleted_entryRow(h) ==
    /\ ~crashed
    /\ req[h].kind = "deleted_entry"
    /\ req[h].pc = "delete"
    /\ \/ /\ db' = SelectSeq(db, LAMBDA row : row.ID # req[h].entries[1].ID)
          /\ req' = [req EXCEPT ![h].pc = "flush", ![h].wrote = TRUE]
       \/ /\ req' = [req EXCEPT ![h] = Reply(@, 400)]
          /\ UNCHANGED db
    /\ UNCHANGED << otherVars, lastID, cRedis >>

\* The mutations' cRedis.FlushAll(ctx), a failure only logged, and the answer
deleted_entryFlush(h) == req[h].kind = "deleted_entry" /\ FlushAndReply(h)
created_entryFlush(h) == req[h].kind = "created_entry" /\ FlushAndReply(h)
updated_entryFlush(h) == req[h].kind = "updated_entry" /\ FlushAndReply(h)

\* ------------------------------------------------------------ specification
Step(limit, P, R) ==
    \/ Consume(limit, P)
    \/ GetMsg
    \/ \E r \in Runs : ProcessMsgUnmarshal(r)
    \/ \E r \in Runs : ProcessMsgValidate(r)
    \/ \E r \in Runs : EnrichStart(r)
    \/ \E r \in Runs, g \in Svc : LookupReq(r, g, R)
    \/ \E r \in Runs, g \in Svc : LookupSend(r, g)
    \/ \E r \in Runs, g \in Svc : LookupPanic(r, g)
    \/ \E r \in Runs, g \in Svc : LookupDone(r, g)
    \/ \E r \in Runs : EnrichClose(r)
    \/ \E r \in Runs : EnrichReturn(r)
    \/ \E r \in Runs : ProcessMsgEnriched(r)
    \/ \E r \in Runs : Create(r)
    \/ \E r \in Runs : FlushAll(r)
    \/ \E r \in Runs : ProduceInput(r)
    \/ Deliver
    \/ \E r \in Runs : ProduceReturn(r)

\* One message at a time, every payload and every response of the model.
Next == Step(MaxSolo, Payloads, Responses)

Spec == Init /\ [][Next]_vars

\* MaxMsgs messages whose runs overlap, on the reduced inputs.
ConcNext == Step(MaxMsgs, ConcPayloads, ConcResponses)

ConcSpec == Init /\ [][ConcNext]_vars

\* One message and MaxReqs HTTP requests, all overlapping.
ApiNext ==
    \/ Step(MaxSolo, ApiPayloads, ApiResponses)
    \/ \E h \in Reqs : ReadGet(h)
    \/ \E h \in Reqs : ReadFind(h)
    \/ \E h \in Reqs : ReadSet(h)
    \/ \E h \in Reqs : CreateInsert(h)
    \/ \E h \in Reqs : CreateFlush(h)
    \/ \E h \in Reqs : UpdateRows(h)
    \/ \E h \in Reqs : UpdateFlush(h)
    \/ \E h \in Reqs : DeleteFirst(h)
    \/ \E h \in Reqs : DeleteRow(h)
    \/ \E h \in Reqs : DeleteFlush(h)

ApiSpec == Init /\ [][ApiNext]_vars

\* The GraphQL fields next to the Read handler and one run of ProcessMsg:
\* all of them work on the same table and the same cache keys.
GraphQLNext ==
    \/ Step(MaxSolo, ApiPayloads, ApiResponses)
    \/ \E h \in Reqs : ReadGet(h)
    \/ \E h \in Reqs : ReadFind(h)
    \/ \E h \in Reqs : ReadSet(h)
    \/ \E h \in Reqs : entriesGet(h)
    \/ \E h \in Reqs : entriesFind(h)
    \/ \E h \in Reqs : entriesSet(h)
    \/ \E h \in Reqs : created_entry(h)
    \/ \E h \in Reqs : created_entryFlush(h)
    \/ \E h \in Reqs : updated_entry(h)
    \/ \E h \in Reqs : updated_entryFlush(h)

GraphQLSpec == Init /\ [][GraphQLNext]_vars

\* Everything that writes to the table, REST and GraphQL, next to one run of
\* ProcessMsg, with the Read handler filling the cache they flush.
WriteNext ==
    \/ Step(MaxSolo, ApiPayloads, ApiResponses)
    \/ \E h \in Reqs : ReadGet(h)
    \/ \E h \in Reqs : ReadFind(h)
    \/ \E h \in Reqs : ReadSet(h)
    \/ \E h \in Reqs : CreateInsert(h)
    \/ \E h \in Reqs : CreateFlush(h)
    \/ \E h \in Reqs : UpdateRows(h)
    \/ \E h \in Reqs : UpdateFlush(h)
    \/ \E h \in Reqs : DeleteFirst(h)
    \/ \E h \in Reqs : DeleteRow(h)
    \/ \E h \in Reqs : DeleteFlush(h)
    \/ \E h \in Reqs : created_entry(h)
    \/ \E h \in Reqs : created_entryFlush(h)
    \/ \E h \in Reqs : updated_entry(h)
    \/ \E h \in Reqs : updated_entryFlush(h)
    \/ \E h \in Reqs : deleted_entryFirst(h)
    \/ \E h \in Reqs : deleted_entryRow(h)
    \/ \E h \in Reqs : deleted_entryFlush(h)

WriteSpec == Init /\ [][WriteNext]_vars

FullNameValidateAnnotating ==
    /\ Len(probe.full) < MaxCalls
    /\ probe' = [probe EXCEPT !.full = Append(@, FullNameIsValid(probe.fn)),
                              !.fn.Error = FullNameIsValid(probe.fn)]
    /\ UNCHANGED << driverVars, runVars, storeVars, prodVars, crashed, apiVars >>

\* cause := dataMsg.IsValid(): the receiver is read, nothing is assigned
FullNameValidate ==
    /\ Len(probe.full) < MaxCalls
    /\ probe' = [probe EXCEPT !.full = Append(@, FullNameIsValid(probe.fn))]
    /\ UNCHANGED << driverVars, runVars, storeVars, prodVars, crashed, apiVars >>

\* err := entry.IsValid(): the receiver is read, nothing is assigned
EntryValidate ==
    /\ Len(probe.entry) < MaxCalls
    /\ probe' = [probe EXCEPT
                    !.entry = Append(@, EntryIsValid(EntryOf(probe.fn, probe.rest)))]
    /\ UNCHANGED << driverVars, runVars, storeVars, prodVars, crashed, apiVars >>

ValidNext == FullNameValidate \/ EntryValidate

ValidSpec == ValidInit /\ [][ValidNext]_vars

\* ------------------------------------------------------ what the claims see
\* Run r was started.
Dispatched(r) == pc[r] # "idle"

\* ProcessMsg of run r has returned.
Returned(r) == pc[r] = "done"

\* Run r can do nothing more: it returned, or the process ended under it.
Ended(r) == Dispatched(r) /\ (Returned(r) \/ crashed)

\* Rows of the store that run r created.
RowsOf(r) == { i \in 1..Len(db) : entry[r].ID # 0 /\ db[i].ID = entry[r].ID }

\* Lookup g of run r got its response, and the response was a failure.
Answered(r, g) == lk[r][g].pc \in {"run", "done", "panic"}
Failed(r, g) == Answered(r, g) /\ PlanOf(g, lk[r][g].resp).sends # <<>>
Succeeded(r, g) == Answered(r, g) /\ PlanOf(g, lk[r][g].resp).sends = <<>>

\* The cause a dead-letter value carries: none when it is not a record.
CauseOf(val) == IF val.json THEN val.val.Error ELSE ""

\* C1: every run ends with exactly one terminal record: one row and no
\* emission to the failure topic, or one emission and no row.
C1_ExactlyOneTerminalRecord ==
    \A r \in Runs :
        Ended(r) =>
            \/ Cardinality(RowsOf(r)) = 1 /\ Len(emitted[r]) = 0
            \/ Cardinality(RowsOf(r)) = 0 /\ Len(emitted[r]) = 1

\* C2: no outcome of an attribute lookup terminates the process.
C2_LookupFailureKeepsProcessAlive ==
    \A r \in Runs, g \in Svc : Failed(r, g) => ~crashed

\* A name the validation rules reject, the length counted in letters: empty,
\* shorter than MinLen, longer than MaxLen, or holding a digit or a symbol.
Rejectable(s) ==
    \/ s = <<>>
    \/ Len(s) < MinLen
    \/ Len(s) > MaxLen
    \/ \E i \in 1..Len(s) : s[i] \in Digits \cup Symbols

\* C3: a decodable message whose name or surname is empty, shorter than 2,
\* longer than 50 or holds a digit or symbol causes no lookup, no create and
\* no flush, and its run returns with exactly one emitted record that has a
\* cause and the message's name, surname and patronymic.
C3_InvalidMessageIsDeadLettered ==
    \A r \in Runs :
        (/\ Dispatched(r)
         /\ msg[r].json
         /\ Rejectable(msg[r].val.Name) \/ Rejectable(msg[r].val.Surname))
        =>  /\ calls[r] = NoCalls
            /\ RowsOf(r) = {}
            /\ Returned(r) =>
                /\ Len(emitted[r]) = 1
                /\ CauseOf(emitted[r][1]) # ""
                /\ emitted[r][1].val.Name = msg[r].val.Name
                /\ emitted[r][1].val.Surname = msg[r].val.Surname
                /\ emitted[r][1].val.Patronymic = msg[r].val.Patronymic

\* The message of run r decodes and passes FullName.IsValid.
ValidMsg(r) == msg[r].json /\ FullNameIsValid(msg[r].val) = ""

\* The store refused the create of run r.
StoreRejected(r) == calls[r].create > 0 /\ entry[r].ID = 0

\* C4: a run with a valid message whose three lookups succeeded and whose
\* write the store does not refuse ends with exactly one row that carries
\* the message's names and the three looked-up attributes, and with nothing
\* emitted.
C4_ValidMessageIsPersisted ==
    \A r \in Runs :
        (/\ Ended(r)
         /\ ValidMsg(r)
         /\ \A g \in Svc : Succeeded(r, g)
         /\ ~StoreRejected(r))
        =>  /\ Cardinality(RowsOf(r)) = 1
            /\ Len(emitted[r]) = 0
            /\ \A i \in RowsOf(r) :
                /\ db[i].Name = msg[r].val.Name
                /\ db[i].Surname = msg[r].val.Surname
                /\ db[i].Patronymic = msg[r].val.Patronymic
                /\ db[i].Age = lk[r]["age"].resp.body.age.n
                /\ db[i].Gender = lk[r]["gender"].resp.body.gender.s
                /\ db[i].Nationality =
                     lk[r]["nationality"].resp.body.country.list[1].country_id.s

\* C5: every row of the store passes Entry.IsValid.
C5_RowsAreValidEntries ==
    \A i \in 1..Len(db) : EntryIsValid(db[i]) = ""

\* C6: a run in which a lookup failed ends with Enrich having returned an
\* error to ProcessMsg, and without a row.
C6_LookupFailureIsReturned ==
    \A r \in Runs :
        (Ended(r) /\ \E g \in Svc : Failed(r, g))
        => enrichErr[r] \notin {"pending", ""} /\ RowsOf(r) = {}

\* C7: once Enrich has returned, nil or an error, its three lookup
\* goroutines have finished.
C7_EnrichReturnsAfterAllLookups ==
    \A r \in Runs :
        enrichErr[r] # "pending" => \A g \in Svc : lk[r][g].pc = "done"

\* Goroutine g of run r is in a send that can never complete: the slot is
\* taken and Enrich, the only receiver, has returned.
Stuck(r, g) ==
    /\ lk[r][g].pc = "run"
    /\ lk[r][g].plan.sends # <<>>
    /\ Len(errCh[r].buf) = ErrChCap
    /\ enrichErr[r] # "pending"

\* C8: no lookup goroutine is left permanently blocked sending its failure.
C8_NoLookupBlockedForever ==
    \A r \in Runs, g \in Svc : ~Stuck(r, g)

\* Enrich hands on one error of the channel unchanged: it tells of the
\* failure of lookup g when it is one of the errors g had to send.
Reflects(err, r, g) ==
    \E i \in 1..Len(PlanOf(g, lk[r][g].resp).sends) :
        PlanOf(g, lk[r][g].resp).sends[i] = err

\* C9: the error Enrich returned reflects every lookup failure of the call.
C9_ReturnedErrorReflectsEveryFailure ==
    \A r \in Runs :
        enrichErr[r] \notin {"pending", ""} =>
            \A g \in Svc : Failed(r, g) => Reflects(enrichErr[r], r, g)

\* C10: every value handed to the failure topic carries a non-empty Error.
C10_EmittedRecordHasCause ==
    \A r \in Runs : \A i \in 1..Len(emitted[r]) : CauseOf(emitted[r][i]) # ""

\* Lookup g of run r got a body that does not decode as JSON.
BadBody(r, g) == Answered(r, g) /\ lk[r][g].resp.kind = "badbody"

\* The cause ProcessMsg gives a record after Enrich returned an error.
EnrichCause(r) == "Failed to enrich data from API: " \o enrichErr[r]

\* C11: a run in which a lookup got an undecodable body ends with the
\* message emitted once, its Error naming the enrichment failure, with no
\* row created and no cache flush.
C11_UndecodableBodyIsDeadLettered ==
    \A r \in Runs :
        (Ended(r) /\ \E g \in Svc : BadBody(r, g))
        =>  /\ enrichErr[r] \notin {"pending", ""}
            /\ Len(emitted[r]) = 1
            /\ CauseOf(emitted[r][1]) = EnrichCause(r)
            /\ calls[r].create = 0
            /\ RowsOf(r) = {}
            /\ calls[r].flush = 0

\* The cause ProcessMsg gives a record after the store refused the create.
CreateCause == "Failed to create entry: " \o StoreErr

\* C12: when the store refuses the create of a run, the create was tried
\* once, the store has no row of the run and the run never flushes the
\* cache; when the run has returned it has emitted the message once, with
\* the store's cause as Error.
C12_RejectedCreateIsDeadLettered ==
    \A r \in Runs :
        StoreRejected(r) =>
            /\ calls[r].create = 1
            /\ RowsOf(r) = {}
            /\ Len(db) = Cardinality({ q \in Runs : ~StoreRejected(q) /\ calls[q].create > 0 })
            /\ calls[r].flush = 0
            /\ Returned(r) =>
                /\ Len(emitted[r]) = 1
                /\ CauseOf(emitted[r][1]) = CreateCause
                /\ emitted[r][1].val.Name = msg[r].val.Name
                /\ emitted[r][1].val.Surname = msg[r].val.Surname
                /\ emitted[r][1].val.Patronymic = msg[r].val.Patronymic

C12_Witness ==
    \E r \in Runs : StoreRejected(r) /\ Returned(r) /\ Len(emitted[r]) = 1

\* In this step Read request h arrives and is answered with cache entry c.
ReadHit(h, c) ==
    /\ req[h].pc = "idle"
    /\ req'[h].kind = "Read"
    /\ req'[h].src = "cache"
    /\ c.key = KeyOf(req'[h].input)

\* C13: a Read that starts after the create of a run has succeeded is never
\* answered with a cache entry that was stored before that create, whether
\* or not the run has flushed the cache since.
C13_NoCacheEntryOlderThanCreate ==
    [][\A h \in Reqs, r \in Runs, c \in cRedis :
          (entry[r].ID # 0 /\ ReadHit(h, c)) => c.at >= entry[r].ID]_vars

\* Every write of the store has been followed by a flush that the cache
\* acknowledged, and its writer has returned.
WritesFlushed ==
    /\ \A r \in Runs : entry[r].ID # 0 => Returned(r) /\ calls[r].flushed = 1
    /\ \A h \in Reqs : req[h].wrote => req[h].pc = "done" /\ req[h].flushed

\* Read serves the parameters: it gets as far as the cache.
Servable(in) ==
    /\ (Query(in.col) = <<>>) = (Query(in.data) = <<>>)
    /\ ~SizeOf(in).err
    /\ ~PageOf(in).err

\* C14: once every write and its flush have completed, the cache holds no
\* entry that differs from what the store now gives for the entry's key.
C14_CacheFreshAfterFlush ==
    WritesFlushed =>
        \A c \in cRedis, in \in ReadInputs :
            (Servable(in) /\ c.key = KeyOf(in))
            => UnmarshalEntries(c.val) = FindOf(db, in).entries

\* Run r calls FlushAll in this step; run r returns in this step.
Flushes(r) == calls'[r].flush # calls[r].flush
Returns(r) == pc[r] # "done" /\ pc'[r] = "done"

Succeeds(r) ==
    /\ ValidMsg(r)
    /\ \A g \in Svc : Succeeded(r, g)
    /\ calls[r].create > 0
    /\ ~StoreRejected(r)
    /\ Returned(r)

\* C16: when the N runs started have distinct valid messages and all of
\* them succeeded, the store holds exactly N rows, one per run, each with
\* the names of its run's message.
C16_OneRowPerConcurrentRun ==
    (/\ \A r \in 1..nRuns : Succeeds(r)
     /\ \A r, q \in 1..nRuns : r # q => msg[r] # msg[q])
    =>  /\ Len(db) = nRuns
        /\ \A r \in 1..nRuns :
            /\ Cardinality(RowsOf(r)) = 1
            /\ \A i \in RowsOf(r) :
                /\ db[i].Name = msg[r].val.Name
                /\ db[i].Surname = msg[r].val.Surname
                /\ db[i].Patronymic = msg[r].val.Patronymic
        /\ \A r, q \in 1..nRuns : r # q => RowsOf(r) \cap RowsOf(q) = {}

\* Two runs with different messages overlapped (the second was started
\* before the first had its lookups answered) and both succeeded.
C16_Witness ==
    /\ nRuns = MaxMsgs
    /\ \A r \in Runs : Succeeds(r)
    /\ msg[1] # msg[2]
    /\ entry[2].ID < entry[1].ID

\* No lookup, no create and no flush was called by run r.
NoLaterStage(r) ==
    /\ \A g \in Svc : calls[r][g] = 0 /\ lk[r][g].pc = "idle"
    /\ calls[r].create = 0
    /\ calls[r].flush = 0

\* C17: a run whose message does not decode or does not pass validation
\* starts no lookup (and so no create and no flush); a run in which a lookup
\* failed or Enrich returned an error attempts no create and no flush; a run
\* whose create the store refused does not flush.
C17_FailureStopsLaterStages ==
    \A r \in Runs :
        /\ (Dispatched(r) /\ ~ValidMsg(r)) => NoLaterStage(r)
        /\ ((\E g \in Svc : Failed(r, g)) \/ enrichErr[r] \notin {"pending", ""})
           => calls[r].create = 0 /\ calls[r].flush = 0 /\ RowsOf(r) = {}
        /\ StoreRejected(r) => calls[r].flush = 0 /\ calls[r].flushed = 0

\* A run returned after Enrich gave it an error, all three lookups asked.
C17_Witness ==
    \E r \in Runs :
        /\ Returned(r)
        /\ enrichErr[r] \notin {"pending", ""}
        /\ \A g \in Svc : calls[r][g] = 1

\* Run r has reached one of its terminal states: its row is created, or it
\* has handed a record to the failure topic's producer.
Terminal(r) == entry[r].ID # 0 \/ Len(emitted[r]) > 0

\* C18: a run that has not reached a terminal state is never left in a
\* state from which no step can be taken, so that under fairness it goes on
\* until it has reached one.
C18_RunReachesTerminalState ==
    \A r \in Runs : (Dispatched(r) /\ ~Terminal(r)) => ENABLED Next

\* C19: while the process runs, a message the consumer holds is dispatched
\* and the next one is read whatever the runs started before are doing.
C19_DispatchDoesNotWaitForRuns ==
    ~crashed =>
        /\ (dataCh # <<>> /\ nRuns < MaxMsgs) => ENABLED GetMsg
        /\ (dataCh = <<>> /\ nRead < MaxMsgs) => ENABLED Consume(MaxMsgs, ConcPayloads)

\* The first run still waits for its lookups, none of them answered, and
\* the second message has been read, dispatched and processed to its end.
C19_Witness ==
    /\ pc[1] = "recv"
    /\ \A g \in Svc : lk[1][g].pc = "req"
    /\ nRuns = 2
    /\ Returned(2)

\* C20: within one run every attribute service is requested at most once,
\* the create and the flush are called at most once, and at most one record
\* is handed to the failure topic's producer, which gets no more messages
\* than there are runs that emitted.
C20_NoStageIsRetried ==
    /\ \A r \in Runs :
        /\ \A g \in Svc : calls[r][g] <= 1
        /\ calls[r].create <= 1
        /\ calls[r].flush <= 1
        /\ Len(emitted[r]) <= 1
    /\ Len(prodInput) + Len(prodAcks) + Cardinality({ r \in Runs : Returned(r) /\ emitted[r] # <<>> })
         <= Cardinality({ r \in Runs : emitted[r] # <<>> })

\* A run returned after the producer reported that its publish failed: the
\* failure topic holds nothing and the record was handed over once.
C20_Witness ==
    \E r \in Runs :
        /\ Returned(r)
        /\ Len(emitted[r]) = 1
        /\ failLog = <<>>
        /\ prodInput = <<>>

\* ------------------------------------------------------------ the validators
\* Every rule a field violates, in check order: an empty field violates the
\* first rule only, any other field may be too short or too long and hold a
\* character outside the pattern at once. Lengths are measured as the code
\* measures them.
Violations(s, field) ==
    IF s = <<>> THEN <<field \o " cannot be empty">>
    ELSE (IF ByteLen(s) < MinLen THEN <<field \o " is too short">> ELSE <<>>)
         \o (IF ByteLen(s) > MaxLen THEN <<field \o " is too long">> ELSE <<>>)
         \o (IF ~MatchNamePattern(s)
             THEN <<field \o " contains invalid characters">> ELSE <<>>)

\* C21: the cause FullName.IsValid returns names every rule the record
\* violates, the name's rules before the surname's, joined by commas; a name
\* that is too short and holds an invalid character yields both messages.
C21_CauseNamesEveryViolatedRule ==
    \A i \in 1..Len(probe.full) :
        probe.full[i] =
            Join(Violations(probe.fn.Name, "name")
                 \o Violations(probe.fn.Surname, "surname"), ", ")

\* A name of MinLen to MaxLen letters, all of them Latin or Cyrillic.
WellFormed(s) ==
    /\ Len(s) >= MinLen
    /\ Len(s) <= MaxLen
    /\ \A i \in 1..Len(s) : s[i] \in Latin \cup Cyrillic

\* C22: FullName.IsValid returns the empty cause exactly when name and
\* surname are each non-empty, 2 to 50 letters long and made of Latin or
\* Cyrillic letters only, the length counted in letters.
C22_EmptyCauseIffWellFormed ==
    \A i \in 1..Len(probe.full) :
        probe.full[i] = ""
            <=> WellFormed(probe.fn.Name) /\ WellFormed(probe.fn.Surname)

\* The rule messages a cause can be made of, and whether cause contains m:
\* the cause is a comma-joined list of at most one message per field.
RuleMessages(field) ==
    { <<>> } \cup
    { <<field \o x>> : x \in { " cannot be empty", " is too short", " is too long",
                               " contains invalid characters" } }

Mentions(cause, m) ==
    \E a \in RuleMessages("name"), b \in RuleMessages("surname") :
        /\ Join(a \o b, ", ") = cause
        /\ \E i \in 1..Len(a \o b) : (a \o b)[i] = m

\* A field of MinLen to MaxLen characters of which one is a digit or symbol.
HoldsDigitOrSymbol(s) ==
    /\ Len(s) >= MinLen
    /\ Len(s) <= MaxLen
    /\ \E i \in 1..Len(s) : s[i] \in Digits \cup Symbols

\* The one record run r handed to the failure topic carries message m.
DeadLetterMentions(r, m) ==
    /\ Len(emitted[r]) = 1
    /\ Mentions(CauseOf(emitted[r][1]), m)

\* C23: the dead-letter Error of a message with an empty name contains
\* "name cannot be empty", and that of a message whose name has 2 to 50
\* characters with a digit or symbol among them contains "name contains
\* invalid characters"; likewise for the surname.
C23_DeadLetterNamesTheRule ==
    \A r \in Runs :
        (Returned(r) /\ msg[r].json) =>
            /\ msg[r].val.Name = <<>>
                => DeadLetterMentions(r, "name cannot be empty")
            /\ HoldsDigitOrSymbol(msg[r].val.Name)
                => DeadLetterMentions(r, "name contains invalid characters")
            /\ msg[r].val.Surname = <<>>
                => DeadLetterMentions(r, "surname cannot be empty")
            /\ HoldsDigitOrSymbol(msg[r].val.Surname)
                => DeadLetterMentions(r, "surname contains invalid characters")

\* Age, gender and nationality that Entry.IsValid accepts.
RestValid(rest) ==
    /\ rest.Age >= MinAge
    /\ rest.Age <= MaxAge
    /\ rest.Gender \in {"male", "female"}
    /\ MatchCountryPattern(rest.Nationality)

\* C24: on name and surname the two validators agree: for an entry with a
\* valid age, gender and nationality, Entry.IsValid returns no error exactly
\* when FullName.IsValid returns the empty cause, and otherwise its error is
\* the same rule messages in the same order.
C24_ValidatorsAgreeOnNames ==
    RestValid(probe.rest) =>
        \A i \in 1..Len(probe.full), j \in 1..Len(probe.entry) :
            probe.entry[j] = probe.full[i]

\* Both validators were called on an entry whose name is too short and whose
\* surname holds a digit, the rest being valid: both named the two rules.
C24_Witness ==
    /\ RestValid(probe.rest)
    /\ probe.full # <<>>
    /\ probe.entry # <<>>
    /\ probe.entry[1] = "name is too short, surname contains invalid characters"

RowsKept ==
    /\ Len(db') >= Len(db)
    /\ \A i \in 1..Len(db) : db'[i] = db[i]

\* C27: ProcessMsg never modifies or removes a row that exists: in every
\* step a pipeline run or one of its lookups takes, whatever the HTTP
\* handlers wrote before, the table keeps each row it had, id and fields
\* unchanged, and only grows.
C27_PipelineKeepsExistingRows ==
    [][runVars' # runVars => RowsKept]_vars

\* A run stored its row next to one the Create handler had stored before;
\* that row is still the first of the table.
C27_Witness ==
    \E r \in Runs, h \in Reqs :
        /\ Returned(r)
        /\ entry[r].ID = 2
        /\ req[h].kind = "Create"
        /\ req[h].wrote
        /\ Len(db) = 2
        /\ db[1].ID = 1
        /\ db[2] = entry[r]

\* The body of a Create request was bound and passes Entry.IsValid.
Acceptable(in) == in.ok /\ EntryIsValid(in.entry) = ""

\* C28: the Create handler stores a row and answers 200 exactly when the
\* submitted entry passes Entry.IsValid and the store accepts it; an entry
\* that fails binding or validation is answered with another status at
\* once, with no row created and the cache not flushed.
C28_CreateStoresIffValidAndAccepted ==
    [][\A h \in Reqs :
        /\ (req[h].pc = "idle" /\ req'[h].kind = "Create") =>
            /\ ~Acceptable(req'[h].input) =>
                /\ req'[h].pc = "done"
                /\ req'[h].status \in {400, 422}
                /\ db' = db
                /\ cRedis' = cRedis
            /\ req'[h].wrote <=> db' # db
            /\ req'[h].wrote =>
                /\ Acceptable(req'[h].input)
                /\ Len(db') = Len(db) + 1
                /\ RowsKept
                /\ db'[Len(db')] = [req'[h].input.entry EXCEPT !.ID = lastID']
            /\ ~req'[h].wrote =>
                /\ req'[h].pc = "done"
                /\ req'[h].status # 200
                /\ cRedis' = cRedis
        /\ (req'[h].kind = "Create" /\ req'[h].pc = "done") =>
            (req'[h].status = 200 <=> req'[h].wrote)
      ]_vars

\* One Create was answered 200 with its row stored and the cache flushed,
\* another was answered 422 for an age of 0 and left the table as it was.
C28_Witness ==
    \E h, k \in Reqs :
        /\ req[h].kind = "Create" /\ req[h].status = 200
        /\ req[h].wrote /\ req[h].flushed
        /\ req[k].kind = "Create" /\ req[k].status = 422
        /\ ~req[k].wrote /\ ~req[k].flushed
        /\ Len(db) = 1

OneFilterOnly(in) == (Query(in.col) # <<>>) # (Query(in.data) # <<>>)

\* size and page of the request can be read: the Read handler parses them
\* from text, the entries resolver gets them as integers.
Paged(q) == q.kind = "Read" => ~SizeOf(q.input).err /\ ~PageOf(q.input).err

\* C30: a Read request, REST or GraphQL, that supplies exactly one of col
\* and data is answered with an error (400) in the step that takes it, with
\* no entries from the cache or the store and both left as they were; a
\* request that supplies both or neither goes on to the cache and the store:
\* it is answered from the cache or proceeds to the query of the store.
C30_OneFilterParameterIsRejected ==
    [][\A h \in Reqs :
        (/\ req[h].pc = "idle"
         /\ req'[h].kind \in {"Read", "entries"}
         /\ req'[h].input.ok)
        =>  /\ OneFilterOnly(req'[h].input) =>
                /\ req'[h].pc = "done"
                /\ req'[h].status = 400
                /\ req'[h].src = ""
                /\ req'[h].entries = <<>>
                /\ storeVars' = storeVars
            /\ (~OneFilterOnly(req'[h].input) /\ Paged(req'[h])) =>
                \/ req'[h].pc = "find"
                \/ /\ req'[h].pc = "done"
                   /\ req'[h].status = 200
                   /\ req'[h].src = "cache"
      ]_vars

\* The Read handler refused a request with col alone, the entries resolver
\* refused one with data alone, or one of the two served a request with both
\* from the store next to a refusal of the other.
C30_Witness ==
    \E h, k \in Reqs :
        /\ req[h].pc = "done" /\ req[k].pc = "done"
        /\ req[h].kind = "Read" /\ req[k].kind = "entries"
        /\ \/ /\ OneFilterOnly(req[h].input) /\ req[h].status = 400
              /\ ~OneFilterOnly(req[k].input) /\ Query(req[k].input.col) # <<>>
              /\ req[k].status = 200 /\ req[k].src = "db"
           \/ /\ OneFilterOnly(req[k].input) /\ req[k].status = 400
              /\ Query(req[k].input.data) # <<>>
              /\ ~OneFilterOnly(req[h].input) /\ Query(req[h].input.col) # <<>>
              /\ req[h].status = 200 /\ req[h].src = "db"

\* ------------------------------------------------------------ reads, writes
\* A request to read entries, its cache key and the page the store holds
\* for its parameters.
IsRead(q) == q.kind \in {"Read", "entries"}
ReadKey(q) == IF q.kind = "Read" THEN KeyOf(q.input) ELSE KeyOfArgs(q.input)
StorePage(rows, q) ==
    IF q.kind = "Read" THEN FindOf(rows, q.input) ELSE FindOfArgs(rows, q.input)

\* C31: Read is read-through. In the step that looks the key up: when the
\* key is absent the handler goes on to the store; when it is present and
\* the cache answers, the cached value is the answer, the store not
\* consulted, whatever the store holds by now. The step that queries the
\* store takes the store's current page for the parameters, and the last
\* step answers with that page and stores it under the key (the cache is
\* left as it was when cRedis.Set fails: its result is ignored).
C31_ReadIsReadThrough ==
    [][\A h \in Reqs :
        LET q == req'[h]
            cached == { c \in cRedis : c.key = ReadKey(q) }
        IN  /\ (req[h].pc = "idle" /\ IsRead(q) /\ q.got # "") =>
                /\ cached = {} => q.pc = "find"
                /\ (cached # {} /\ q.got # "error") => q.got = "hit"
                /\ q.got = "hit" =>
                    /\ \E c \in cached : q.entries = UnmarshalEntries(c.val)
                    /\ q.pc = "done"
                    /\ q.status = 200
                    /\ q.src = "cache"
                /\ storeVars' = storeVars
            /\ (IsRead(q) /\ req[h].pc = "find" /\ q.pc = "set") =>
                /\ q.entries = StorePage(db, q).entries
                /\ storeVars' = storeVars
            /\ (IsRead(q) /\ req[h].pc = "set" /\ q # req[h]) =>
                /\ q.pc = "done"
                /\ q.status = 200
                /\ q.entries = req[h].entries
                /\ \/ cRedis' = { c \in cRedis : c.key # ReadKey(q) } \cup
                                  { [key |-> ReadKey(q),
                                     val |-> MarshalEntries(q.entries),
                                     at |-> lastID] }
                   \/ cRedis' = cRedis
      ]_vars

\* One request read its page from the store and stored it; a later one with
\* the same key was answered with that page from the cache although the
\* store holds another page by now.
C31_Witness ==
    \E h, k \in Reqs :
        /\ req[h].pc = "done" /\ req[h].kind = "Read"
        /\ req[h].src = "db"
        /\ \E c \in cRedis :
              c.key = ReadKey(req[h]) /\ c.val = MarshalEntries(req[h].entries)
        /\ req[k].pc = "done" /\ req[k].kind = "entries"
        /\ req[k].got = "hit"
        /\ ReadKey(req[k]) = ReadKey(req[h])
        /\ req[k].entries = req[h].entries
        /\ StorePage(db, req[k]).entries # req[k].entries

\* The table holds a row with this id.
Exists(rows, id) == \E i \in 1..Len(rows) : rows[i].ID = id

\* The table with the fields of entry e written over the row of e's id.
WithRow(rows, e) == [i \in 1..Len(rows) |-> IF rows[i].ID = e.ID THEN e ELSE rows[i]]

\* C32: in the step in which Update takes a valid entry: when the ID exists
\* in the store the row's fields become the request's and the handler goes
\* on to flush the cache and answer 200 (unless the store reports an error);
\* when the ID does not exist the answer is 404, no row changes and the
\* cache is not flushed.
C32_UpdateOfMissingIdIs404 ==
    [][\A h \in Reqs :
        LET q == req'[h] IN
        /\ (/\ req[h].pc = "idle"
            /\ q.kind = "Update"
            /\ Acceptable(q.input))
           =>  /\ Exists(db, q.input.entry.ID) =>
                    \/ /\ q.wrote
                       /\ q.pc = "flush"
                       /\ db' = WithRow(db, q.input.entry)
                    \/ /\ q.pc = "done"
                       /\ q.status = 404
                       /\ db' = db
               /\ ~Exists(db, q.input.entry.ID) =>
                    /\ q.pc = "done"
                    /\ q.status = 404
                    /\ ~q.wrote
                    /\ db' = db
               /\ cRedis' = cRedis
        /\ (q.kind = "Update" /\ req[h].pc = "flush" /\ q.pc = "done") =>
               /\ q.status = 200
               /\ cRedis' = {} \/ cRedis' = cRedis
      ]_vars

\* A request to delete a row, REST or GraphQL, and the status that reports
\* an error of its kind: the handler's 404 and 500, GraphQL's 400.
IsDelete(q) == q.kind \in {"Delete", "deleted_entry"}
NotFoundStatus(q) == IF q.kind = "Delete" THEN 404 ELSE 400
StoreErrStatus(q) == IF q.kind = "Delete" THEN 500 ELSE 400

\* The table without the row of this id, every other row kept in place.
WithoutRow(rows, id) == SelectSeq(rows, LAMBDA row : row.ID # id)

\* C33: Delete, given an ID that exists in the store, removes exactly that
\* row, flushes the cache and answers 200 (unless the store reports an
\* error); given an ID that does not exist it answers 404 (an error, through
\* GraphQL) at once, removes no row and does not flush the cache.
C33_DeleteRemovesExactlyTheRow ==
    [][\A h \in Reqs :
        LET q == req'[h]
            id == q.input.entry.ID
        IN  /\ (req[h].pc = "idle" /\ IsDelete(q) /\ q.input.ok) =>
                /\ ~Exists(db, id) =>
                    /\ q.pc = "done"
                    /\ q.status = NotFoundStatus(q)
                    /\ ~q.wrote
                /\ Exists(db, id) =>
                    \/ /\ q.pc = "delete"
                       /\ q.entries[1].ID = id
                    \/ /\ q.pc = "done"
                       /\ q.status = NotFoundStatus(q)
                /\ storeVars' = storeVars
            /\ (IsDelete(q) /\ req[h].pc = "delete" /\ q # req[h]) =>
                /\ \/ /\ q.wrote
                      /\ q.pc = "flush"
                      /\ db' = WithoutRow(db, id)
                   \/ /\ q.pc = "done"
                      /\ q.status = StoreErrStatus(q)
                      /\ ~q.wrote
                      /\ db' = db
                /\ cRedis' = cRedis
            /\ (IsDelete(q) /\ req[h].pc = "flush" /\ q # req[h]) =>
                /\ q.pc = "done"
                /\ q.status = 200
                /\ db' = db
                /\ cRedis' = IF q.flushed THEN {} ELSE cRedis
      ]_vars

\* The Delete handler removed the one row of the table, flushed the cache
\* and answered 200; after that the deleted_entry mutation found no row
\* under the same id, answered with an error and changed nothing.
C33_Witness ==
    \E h, k \in Reqs :
        /\ req[h].kind = "Delete" /\ req[h].status = 200
        /\ req[h].wrote /\ req[h].flushed
        /\ req[k].kind = "deleted_entry" /\ req[k].input.ok
        /\ req[k].input.entry.ID = req[h].input.entry.ID
        /\ req[k].status = 400
        /\ ~req[k].wrote /\ ~req[k].flushed
        /\ lastID = 1
        /\ db = <<>>

\* ---------------------------------------------------------- Enrich, Produce
\* Lookup g of run r has stored its attribute in the entry of the run.
Written(r, g) ==
    LET out == PlanOf(g, lk[r][g].resp).out IN
    CASE g = "age" -> entry[r].Age \in uint8(out.n)
      [] g = "gender" -> entry[r].Gender = out.s
      [] g = "nationality" -> entry[r].Nationality = out.s

\* C34: when Enrich has returned nil, each of the three lookup goroutines
\* has written its attribute into the entry and has finished; the create
\* that follows is called only then, so no lookup can still write a field
\* the create reads.
C34_NilEnrichMeansLookupsFinished ==
    \A r \in Runs :
        /\ enrichErr[r] = "" =>
            /\ tasks[r] = 0
            /\ \A g \in Svc :
                /\ lk[r][g].pc = "done"
                /\ Succeeded(r, g)
                /\ Written(r, g)
        /\ (pc[r] = "create" \/ calls[r].create > 0) =>
            /\ enrichErr[r] = ""
            /\ \A g \in Svc : lk[r][g].pc = "done"

\* Enrich returned nil and the run is about to create its row: all three
\* lookups are finished and the entry holds what the services answered.
C34_Witness ==
    \E r \in Runs :
        /\ pc[r] = "create"
        /\ enrichErr[r] = ""
        /\ \A g \in Svc : lk[r][g].pc = "done" /\ Written(r, g)
        /\ entry[r].Age # 0
        /\ entry[r].Gender # ""
        /\ entry[r].Nationality # ""

\* Exactly one lookup of run r failed and the other two succeeded.
OneFailed(r) ==
    /\ \A g \in Svc : Answered(r, g)
    /\ Cardinality({ g \in Svc : Failed(r, g) }) = 1

\* The number of errors the lookups of run r send in all.
RECURSIVE SumSends(_, _)
SumSends(r, S) ==
    IF S = {} THEN 0
    ELSE LET g == CHOOSE x \in S : TRUE
         IN  Len(PlanOf(g, lk[r][g].resp).sends) + SumSends(r, S \ {g})

\* C35: when exactly one of the three lookups fails and the other two
\* succeed, the failing branch sends no more errors than the one Enrich
\* receives plus the one the buffer holds, and no lookup is blocked on the
\* full channel after Enrich has returned.
C35_SingleFailureBlocksNoLookup ==
    \A r \in Runs :
        OneFailed(r) =>
            /\ SumSends(r, Svc) <= 1 + ErrChCap
            /\ \A g \in Svc : ~Stuck(r, g)

\* One lookup failed with two sends, Enrich has returned the first and the
\* second sits in the buffer; the failing goroutine has finished.
C35_Witness ==
    \E r \in Runs :
        /\ OneFailed(r)
        /\ SumSends(r, Svc) = 1 + ErrChCap
        /\ enrichErr[r] \notin {"pending", ""}
        /\ Len(errCh[r].buf) = ErrChCap
        /\ \A g \in Svc : lk[r][g].pc = "done"

\* The message the Produce call of run r put on the producer's input.
Own(r) == emitted[r][Len(emitted[r])]

InSeq(s, v) == \E i \in 1..Len(s) : s[i] = v

\* No other run has handed the producer an equal message.
OwnIsUnique(r) ==
    \A s \in Runs \ {r} : \A i \in 1..Len(emitted[s]) : emitted[s][i] # Own(r)

\* C36: the status a Produce call returns reports the acknowledgement of
\* the message this call enqueued: when the call returns, its message has
\* left the producer, and the status is "Message sent successfully" exactly
\* when that message reached the failure topic.
C36_StatusReportsOwnMessage ==
    [][\A r \in Runs :
        (pc[r] = "ack" /\ pc'[r] = "done" /\ OwnIsUnique(r)) =>
            /\ ~InSeq(prodInput, Own(r))
            /\ Head(prodAcks) <=> InSeq(failLog, Own(r))
      ]_vars

\* C37: every message the consumer has read is either still held by the
\* consumer or has been handed to exactly one run; the driver starts the
\* runs in the order of reading, each with the message held, and never
\* changes the message of a run already started; the consumer reads the
\* next message only when the driver has taken the one before.
C37_EachMessageToOneRunInOrder ==
    [][/\ nRead = nRuns + Len(dataCh)
       /\ nRead' = nRuns' + Len(dataCh')
       /\ Len(dataCh') <= 1
       /\ nRead' # nRead =>
            /\ dataCh = <<>>
            /\ nRead = nRuns
            /\ nRead' = nRead + 1
            /\ nRuns' = nRuns
       /\ nRuns' # nRuns =>
            /\ nRuns' = nRuns + 1
            /\ dataCh # <<>>
            /\ msg'[nRuns'] = dataCh[1]
            /\ pc[nRuns'] = "idle"
            /\ dataCh' = <<>>
            /\ nRead' = nRead
       /\ \A r \in 1..nRuns : msg'[r] = msg[r]
       /\ \A r \in Runs : (r > nRuns') => pc'[r] = "idle"
      ]_vars

\* Two different messages were read and each was handed to its own run, in
\* the order of reading, while the first run was still at work.
C37_Witness ==
    /\ nRead = MaxMsgs
    /\ nRuns = MaxMsgs
    /\ dataCh = <<>>
    /\ msg[1] # msg[2]
    /\ pc[1] \notin {"idle", "done"}
    /\ pc[2] = "unmarshal"

\* ------------------------------------------------------- writes and flushes
WriteKinds ==
    {"Create", "Update", "Delete", "created_entry", "updated_entry", "deleted_entry"}

IsWrite(q) == q.kind \in WriteKinds

\* The request was answered with a failure.
FailedReq(q) == q.pc = "done" /\ q.status \notin {0, 200}

====
